---- MODULE Spec2Model ----
(***************************************************************************)
(* PR Reviewer: the poll scheduler (reviewer.js), the review state store   *)
(* (lib/state.js), the comment cycle (lib/comments.js) and the review pass *)
(* (lib/review.js) as one state machine.                                   *)
(*                                                                         *)
(* Node runs one task at a time; a task runs from the completion of one    *)
(* real suspension (child process, HTTP call, timer) to the next one.      *)
(* `cur` names the poll cycle that occupies the thread (0 when the event   *)
(* loop is idle), so the synchronous statements of a cycle can be taken    *)
(* one action at a time and still never interleave with another cycle.     *)
(* Consecutive suspensions between which the cycle touches nothing but its *)
(* own locals are taken as one suspension.                                 *)
(*                                                                         *)
(* Spec: every call succeeds and the process stays up. SpecRestart: the    *)
(* process is killed or shut down and started again. SpecCrash: it may     *)
(* also die inside a write of the state file. SpecFault, SpecRetry: calls  *)
(* to the platform, the agent and the file system may fail.                *)
(***************************************************************************)
EXTENDS Integers, Sequences, FiniteSets, TLC

\* ---------------------------------------------------------------- bounds
MaxLive == 2          \* poll cycles alive at the same time
MaxCycles == 3        \* poll cycles started in one behaviour of Spec
CrashCycles == 2      \* poll cycles started in one behaviour of SpecRestart, SpecCrash
MaxCrashes == 1       \* crashes and shutdowns in one behaviour of SpecRestart, SpecCrash
MaxAdvances == 1      \* jumps of the wall clock in one behaviour of SpecRestart, SpecCrash
FaultCycles == 2      \* poll cycles started in one behaviour of SpecFault
MaxFaults == 1        \* failed I/O calls in one behaviour of SpecFault, SpecRetry
RetryCycles == 3      \* poll cycles started in one behaviour of SpecRetry
PushCycles == 2       \* poll cycles started in one behaviour of SpecPush
MaxPushes == 1        \* commits pushed in one behaviour of SpecPush
MaxSections == 2      \* files in one diff
MaxFindings == 2        \* findings in one answer of a rubric
CommandCycles == 3    \* poll cycles started in one behaviour of SpecCommand
CommandFaults == 1    \* failed calls in one behaviour of SpecCommand

\* ------------------------------------------------------- configuration
REPOS == <<"r1", "r2">>
PROJECT_DIRS == {"r1"}
REVIEW_TYPES == <<"security", "code-quality", "test-quality">>
RetentionDays == 30
ClockSteps == {29, 31}
Epoch == 100

K1 == [repo |-> "r1", number |-> 1]
K2 == [repo |-> "r2", number |-> 1]
KeySeq == <<K1, K2>>
Keys == {KeySeq[i] : i \in 1..Len(KeySeq)}
NumKeys == Len(KeySeq)
KeyIdx(k) == CHOOSE i \in 1..NumKeys : KeySeq[i] = k

\* the comments people may post: id, pull request, source, creation time
\* (their bodies are part of the scenario)
CommentIds == {1, 2}
CInline(c) == (c = 2)
CCreated(c) == c
\* ---------------------------------------------------------------- values
NoVal == -1
NR == NumKeys + MaxLive            \* references that can hold an object
TmpId == NR + 1                    \* the object under construction in a step
HeapIds == 1..TmpId

FreeObj == [used |-> FALSE, reviewedAt |-> NoVal, lastPRUpdate |-> <<>>,
            commitSha |-> NoVal, reviews |-> <<>>, pci |-> 0]
EmptyObj == [FreeObj EXCEPT !.used = TRUE]

NoRec == [used |-> FALSE, reviewedAt |-> NoVal, lastPRUpdate |-> <<>>,
          commitSha |-> NoVal, reviews |-> <<>>, hasIds |-> FALSE, ids |-> <<>>]

IdleTask == [pc |-> "idle", phase |-> 0, ri |-> 0, prs |-> <<>>, pi |-> 0,
             prState |-> 0, cmts |-> <<>>, ci |-> 0,
             commitSha |-> NoVal, shaOk |-> TRUE, rub |-> 0, results |-> <<>>,
             failed |-> {}]

NoEvent == [op |-> "none"]

VARIABLES
  proc,        \* "down", "first" (first cycle, timer not installed), "running"
  cur,         \* the cycle occupying the thread, 0 when the event loop is idle
  tasks,       \* the poll cycles in progress, by slot (failed: the rubrics
               \* of the pass that failed, kept beside the code's results)
  mem,         \* reviewState: key -> object reference (0: no entry)
  objs,        \* the record objects
  arrs,        \* the processedCommentIds arrays (shared by reference)
  disk,        \* review-state.json
  label,       \* does the pull request carry the review label
  head,        \* head commit of the pull request
  posted,      \* the human comments present on the platform
  now,         \* wall clock, in days
  budget,      \* what the behaviour has used of its scenario
  scn,         \* the scenario: the open pull requests and the limits of the behaviour
  ev,          \* what the last step of the program did
  everPersisted,  \* comment ids that were in processedCommentIds on disk
  completed,      \* pull requests whose record write in updateState was reached
  passes,         \* the (pull request, commitSha) of every such write
  threw,          \* comments whose handler threw (caught in handleComment)
  crashedInPass,  \* pull requests whose pass was cut by a crash, not yet re-selected
  abortedPass,    \* pull requests whose pass aborted at entry, not yet re-selected
  thrownPass,     \* pull requests whose pass threw at the summary, not selected or recorded since
  prDiff,         \* the diff of the pull request on the platform: its file sections
  rawDiff,        \* reviewPR: the diff text that getPRDiff returned
  diffData,       \* reviewPR: the position maps per file
  parsedFindings, \* the findings of the last rubric's answer, positions mapped
  postedReviews,  \* what the pass posted, in order
  pass            \* where the position-mapping pass stands

progVars == <<proc, cur, tasks, mem, objs, arrs, disk, label, head, posted, now,
              budget, scn, ev, everPersisted, completed, passes, threw, crashedInPass,
              abortedPass, thrownPass>>
passVars == <<prDiff, rawDiff, diffData, parsedFindings, postedReviews, pass>>
vars == <<progVars, passVars>>

envVars == <<label, head, posted, now>>
ghostSets == <<everPersisted, completed, passes, threw, crashedInPass, abortedPass,
               thrownPass>>

\* ---------------------------------------------------------------- helpers
Min(S) == CHOOSE x \in S : \A y \in S : x <= y
Max(S) == CHOOSE x \in S : \A y \in S : y <= x
Abs(x) == IF x < 0 THEN -x ELSE x
Range(s) == {s[i] : i \in 1..Len(s)}
Contains(s, x) == \E i \in 1..Len(s) : s[i] = x

RECURSIVE SeqOfSet(_)
SeqOfSet(S) == IF S = {} THEN <<>>
               ELSE LET x == Min(S) IN <<x>> \o SeqOfSet(S \ {x})

\* .filter((c) => !processedIds.includes(c.id))
RECURSIVE FilterUnprocessed(_, _)
FilterUnprocessed(s, processedIds) ==
  IF s = <<>> THEN <<>>
  ELSE (IF Contains(processedIds, Head(s)) THEN <<>> ELSE <<Head(s)>>)
       \o FilterUnprocessed(Tail(s), processedIds)

\* Array.prototype.sort by created_at (stable insertion)
RECURSIVE InsertByCreated(_, _)
InsertByCreated(c, s) ==
  IF s = <<>> THEN <<c>>
  ELSE IF CCreated(Head(s)) <= CCreated(c)
       THEN <<Head(s)>> \o InsertByCreated(c, Tail(s))
       ELSE <<c>> \o s

RECURSIVE SortByCreated(_)
SortByCreated(s) ==
  IF s = <<>> THEN <<>>
  ELSE InsertByCreated(s[Len(s)], SortByCreated(SubSeq(s, 1, Len(s) - 1)))

\* ------------------------------------------------- comments.js: parseCommand
\* comment.body, and the pull request the comment is on
CBody(c) == scn.bodies[c]
CKey(c) == scn.on[c]

IsSpace(ch) == ch \in {" ", "\n", "\t"}

ToLower(ch) ==
  CASE ch = "R" -> "r" [] ch = "E" -> "e" [] ch = "V" -> "v" [] ch = "I" -> "i"
    [] ch = "W" -> "w" [] ch = "F" -> "f" [] ch = "X" -> "x" [] ch = "L" -> "l"
    [] ch = "N" -> "n" [] ch = "T" -> "t" [] OTHER -> ch

RECURSIVE TrimLeft(_)
TrimLeft(s) == IF s # <<>> /\ IsSpace(Head(s)) THEN TrimLeft(Tail(s)) ELSE s

RECURSIVE TrimRight(_)
TrimRight(s) == IF s # <<>> /\ IsSpace(s[Len(s)])
                THEN TrimRight(SubSeq(s, 1, Len(s) - 1)) ELSE s

Trim(s) == TrimRight(TrimLeft(s))
LowerCase(s) == [i \in 1..Len(s) |-> ToLower(s[i])]
StartsWith(s, p) == Len(s) >= Len(p) /\ SubSeq(s, 1, Len(p)) = p

parseCommand(body) ==
  LET trimmed == LowerCase(Trim(body)) IN
  IF trimmed = <<"!", "r", "e", "v", "i", "e", "w">> THEN "review"
  ELSE IF trimmed = <<"!", "f", "i", "x", "-", "l", "i", "n", "t">> THEN "fix-lint"
  ELSE IF StartsWith(trimmed, <<"!", "f", "i", "x">>) THEN "fix"
  ELSE "null"

\* ------------------------------------------------------------ claude.js: run
\* what the agent prints (tokens): a complete answer, an answer followed by
\* text, an answer cut short, an object without the fields, text, blanks, nothing
Answer == <<"{", "status", "findings", "}">>
Stdouts ==
  {Answer, Answer \o <<"\n", "text">>, <<"{", "status">>, <<"{", "}">>, <<"text">>,
   <<" ", "\n">>, <<>>}

\* how an invocation ends: the child exits with code 0 or 1, is killed at the
\* timeout (close with code null), or cannot be spawned (error)
Runs == [end : {"exit0", "exit1", "timeout", "error"}, stdout : Stdouts]

\* claude.run: the promise resolves with the trimmed output or is rejected
run(r) ==
  IF r.end = "error" THEN [resolved |-> FALSE, value |-> <<>>]
  ELSE IF r.end = "exit0" \/ Trim(r.stdout) # <<>>
       THEN [resolved |-> TRUE, value |-> Trim(r.stdout)]
       ELSE [resolved |-> FALSE, value |-> <<>>]

\* claude.parseReviewResponse: TRUE when it returns an object, FALSE when it
\* throws (no braces, no JSON between the first { and the last }, no fields)
parseReviewResponse(raw) ==
  LET open == {i \in 1..Len(raw) : raw[i] = "{"}
      close == {i \in 1..Len(raw) : raw[i] = "}"}
  IN IF open = {} \/ close = {} THEN FALSE
     ELSE SubSeq(raw, Min(open), Max(close)) = Answer

\* ------------------------------------------------------- state.js: the store
key(repo, number) == [repo |-> repo, number |-> number]

\* state.get: the entry itself (a reference), 0 for null
get(m, k) == m[k]

\* JSON.stringify of one entry: absent fields stay absent
ValOf(o, as) ==
  [used |-> TRUE, reviewedAt |-> o.reviewedAt, lastPRUpdate |-> o.lastPRUpdate,
   commitSha |-> o.commitSha, reviews |-> o.reviews,
   hasIds |-> (o.pci # 0), ids |-> IF o.pci = 0 THEN <<>> ELSE as[o.pci]]

\* JSON.stringify(reviewState)
Serialize(m, os, as) ==
  [k \in Keys |-> IF m[k] = 0 THEN NoRec ELSE ValOf(os[m[k]], as)]

EmptyStore == [k \in Keys |-> NoRec]

\* variant: a file cut by a crash is read as the store that was being written
ParsedTornAsWritten(d) ==
  IF d.kind = "ok" THEN d.data ELSE IF d.kind = "torn" THEN d.after ELSE EmptyStore
\* what JSON.parse(readFileSync) yields; a missing or unparseable file leaves {}
Parsed(d) == IF d.kind = "ok" THEN d.data ELSE EmptyStore

OkDisk(data) == [kind |-> "ok", data |-> data]
MissingDisk == [kind |-> "missing"]
TornDisk(d, data) == [kind |-> "torn", before |-> Parsed(d), after |-> data]

\* the heap that holds a parsed store: entry i of KeySeq is object i, array i
HeapMem(data) == [k \in Keys |-> IF data[k].used THEN KeyIdx(k) ELSE 0]
HeapObjs(data) ==
  [i \in HeapIds |->
     IF i <= NumKeys /\ data[KeySeq[i]].used
     THEN LET v == data[KeySeq[i]] IN
          [used |-> TRUE, reviewedAt |-> v.reviewedAt, lastPRUpdate |-> v.lastPRUpdate,
           commitSha |-> v.commitSha, reviews |-> v.reviews,
           pci |-> IF v.hasIds THEN i ELSE 0]
     ELSE FreeObj]
HeapArrs(data) ==
  [i \in HeapIds |->
     IF i <= NumKeys /\ data[KeySeq[i]].used /\ data[KeySeq[i]].hasIds
     THEN data[KeySeq[i]].ids ELSE <<>>]

\* state.cleanup: entries with a reviewedAt older than the cutoff are deleted
\* variant: the window is two days shorter
StaleDayEarly(v, t) == v.used /\ v.reviewedAt # NoVal /\ v.reviewedAt < t - RetentionDays + 2
Stale(v, t) == v.used /\ v.reviewedAt # NoVal /\ v.reviewedAt < t - RetentionDays
cleanup(data, t) == [k \in Keys |-> IF Stale(data[k], t) THEN NoRec ELSE data[k]]

\* References are renamed after every step: an object is named by the first
\* reference that holds it (store entries in KeySeq order, then the prState of
\* each cycle), an array by the first object that holds it.
Roots(m, ts) ==
  [i \in 1..NR |-> IF i <= NumKeys THEN m[KeySeq[i]] ELSE ts[i - NumKeys].prState]
NewId(r, o) == IF o = 0 THEN 0 ELSE Min({i \in 1..NR : r[i] = o})
NewArr(r, os, a) ==
  IF a = 0 THEN 0 ELSE Min({NewId(r, r[i]) : i \in {j \in 1..NR : r[j] # 0 /\ os[r[j]].pci = a}})
CanonMem(m, ts) == [k \in Keys |-> NewId(Roots(m, ts), m[k])]
CanonTasks(m, ts) ==
  [t \in 1..MaxLive |-> [ts[t] EXCEPT !.prState = NewId(Roots(m, ts), @)]]
CanonObjs(m, ts, os) ==
  LET r == Roots(m, ts) IN
  [i \in HeapIds |->
     IF i <= NR /\ r[i] # 0 /\ NewId(r, r[i]) = i
     THEN [os[r[i]] EXCEPT !.pci = NewArr(r, os, @)]
     ELSE FreeObj]
CanonArrs(m, ts, os, as) ==
  LET r == Roots(m, ts) IN
  [i \in HeapIds |->
     IF \E j \in 1..NR : r[j] # 0 /\ os[r[j]].pci # 0 /\ NewArr(r, os, os[r[j]].pci) = i
     THEN LET j == CHOOSE j \in 1..NR :
                     r[j] # 0 /\ os[r[j]].pci # 0 /\ NewArr(r, os, os[r[j]].pci) = i
          IN as[os[r[j]].pci]
     ELSE <<>>]

\* the store as a value: what get would return for every key, arrays read through
StoreView == Serialize(mem, objs, arrs)

\* ------------------------------------------------------------ the platform
NumRubrics == Len(REVIEW_TYPES)
AgentOutputs == {[status |-> "CHANGES_REQUESTED", findings |-> 1]}
NullParsed == [status |-> "null", findings |-> 0]

\* one element of `gh pr list --json number,headRefOid,labels`
Snapshot(k) == [key |-> k, label |-> label[k], oid |-> head[k]]

RECURSIVE SnapshotsOf(_, _)
SnapshotsOf(repo, ks) ==
  IF ks = <<>> THEN <<>>
  ELSE (IF Head(ks).repo = repo /\ Head(ks) \in scn.open
        THEN <<Snapshot(Head(ks))>> ELSE <<>>)
       \o SnapshotsOf(repo, Tail(ks))

\* github.listOpenPRs
listOpenPRs(repo) == SnapshotsOf(repo, KeySeq)

\* github.getUnprocessedReviewComments / getUnprocessedIssueComments
getUnprocessedReviewComments(k) == SeqOfSet({c \in posted : CKey(c) = k /\ CInline(c)})
getUnprocessedIssueComments(k) == SeqOfSet({c \in posted : CKey(c) = k /\ ~CInline(c)})

\* comments.js mergeAndFilter; a failed fetch yields []
mergeAndFilter(k, processedIds, reviewOk, issueOk) ==
  LET review == IF reviewOk THEN getUnprocessedReviewComments(k) ELSE <<>>
      issue == IF issueOk THEN getUnprocessedIssueComments(k) ELSE <<>>
  IN SortByCreated(FilterUnprocessed(review \o issue, processedIds))

RECURSIVE ReviewableUnrecordedOnly(_, _)
RECURSIVE Reviewable(_, _)
\* variant: the review label is not looked at
ReviewableUnrecordedOnly(prs, m) ==
  IF prs = <<>> THEN <<>>
  ELSE (IF get(m, Head(prs).key) = 0 THEN <<Head(prs)>> ELSE <<>>)
       \o ReviewableUnrecordedOnly(Tail(prs), m)

\* reviewer.js pollForReviews: prs.filter(pr => !prState || hasReviewLabel)
Reviewable(prs, m) ==
  IF prs = <<>> THEN <<>>
  ELSE (IF get(m, Head(prs).key) = 0 \/ Head(prs).label THEN <<Head(prs)>> ELSE <<>>)
       \o Reviewable(Tail(prs), m)

SnapKeys(prs) == {prs[i].key : i \in 1..Len(prs)}

\* variant: the diff is not looked at
entryAbortsOnShaOnly(commitSha, diffOk) == commitSha = NoVal

\* review.js reviewPR: return when there is no full commit sha or no diff
entryAborts(commitSha, diffOk) == commitSha = NoVal \/ ~diffOk

\* variant: only the rubrics that produced a parsed answer are recorded
ReviewsOfParsedOnly(results) ==
  LET ran == SelectSeq(results, LAMBDA r : r.parsed.status # "null") IN
  [i \in 1..Len(ran) |->
     [type |-> ran[i].type, status |-> ran[i].parsed.status,
      findings |-> ran[i].parsed.findings, error |-> ran[i].error]]

\* review.js updateState: results.map(...)
ReviewsOf(results) ==
  [i \in 1..Len(results) |->
     [type |-> results[i].type,
      status |-> IF results[i].parsed.status = "null" THEN "ERROR"
                 ELSE results[i].parsed.status,
      findings |-> results[i].parsed.findings,
      error |-> results[i].error]]

\* ------------------------------------------------ what `gh pr diff` prints
\* A diff on the platform: file sections, each with hunks of tagged lines.
\* The text is the unified diff git prints for it, one "\n" after every line.
FileNames == {<<"f">>, <<"g">>}
OldName == <<"e">>

DigitChars == <<"0", "1", "2", "3", "4", "5", "6", "7", "8", "9">>
ToDigits(n) == IF n < 10 THEN <<DigitChars[n + 1]>>
               ELSE <<DigitChars[(n \div 10) + 1], DigitChars[(n % 10) + 1]>>

CountTag(lines, tags) == Cardinality({i \in 1..Len(lines) : lines[i].tag \in tags})

RECURSIVE Flatten(_)
Flatten(ss) == IF ss = <<>> THEN <<>> ELSE Head(ss) \o Flatten(Tail(ss))

\* "@@ -start,count +start,count @@" (a count of 1 is left out), the lines with
\* their tag, and git's marker when the file ends without a newline
HunkText(h) ==
  LET range(start, count) ==
        ToDigits(start) \o (IF count = 1 THEN <<>> ELSE <<",">> \o ToDigits(count))
  IN <<<<"@", "@", " ", "-">> \o range(h.oldStart, CountTag(h.lines, {" ", "-"}))
       \o <<" ", "+">> \o range(h.newStart, CountTag(h.lines, {" ", "+"}))
       \o <<" ", "@", "@">>>>
     \o [i \in 1..Len(h.lines) |-> <<h.lines[i].tag>> \o h.lines[i].text]
     \o (IF h.noeol THEN <<<<"\\", " ", "N", "o", " ", "n", "e", "w", "l", "i", "n", "e", " ", "a", "t", " ", "e", "n", "d", " ", "o", "f", " ", "f", "i", "l", "e">>>> ELSE <<>>)

\* the header lines of a file section by kind, then its hunks
SectionText(s) ==
  LET git(a, b) == <<"d", "i", "f", "f", " ", "-", "-", "g", "i", "t", " ", "a", "/">> \o a \o <<" ", "b", "/">> \o b
      index == <<"i", "n", "d", "e", "x", " ", "1", "a", ".", ".", "2", "b", " ", "1", "0", "0", "6", "4", "4">>
      old(a) == <<"-", "-", "-", " ", "a", "/">> \o a
      new(b) == <<"+", "+", "+", " ", "b", "/">> \o b
      header ==
        CASE s.kind = "modified" -> <<git(s.name, s.name), index, old(s.name), new(s.name)>>
          [] s.kind = "new" ->
               <<git(s.name, s.name), <<"n", "e", "w", " ", "f", "i", "l", "e", " ", "m", "o", "d", "e", " ", "1", "0", "0", "6", "4", "4">>, index,
                 <<"-", "-", "-", " ", "/", "d", "e", "v", "/", "n", "u", "l", "l">>, new(s.name)>>
          [] s.kind = "deleted" ->
               <<git(s.name, s.name), <<"d", "e", "l", "e", "t", "e", "d", " ", "f", "i", "l", "e", " ", "m", "o", "d", "e", " ", "1", "0", "0", "6", "4", "4">>, index,
                 old(s.name), <<"+", "+", "+", " ", "/", "d", "e", "v", "/", "n", "u", "l", "l">>>>
          [] s.kind = "renamed" ->
               <<git(OldName, s.name), <<"s", "i", "m", "i", "l", "a", "r", "i", "t", "y", " ", "i", "n", "d", "e", "x", " ", "9", "0", "%">>,
                 <<"r", "e", "n", "a", "m", "e", " ", "f", "r", "o", "m", " ">> \o OldName, <<"r", "e", "n", "a", "m", "e", " ", "t", "o", " ">> \o s.name>>
               \o (IF s.hunks = <<>> THEN <<>> ELSE <<index, old(OldName), new(s.name)>>)
  IN header \o Flatten([i \in 1..Len(s.hunks) |-> HunkText(s.hunks[i])])

\* the text of the whole diff, "\n" after each line
DiffOutput(d) ==
  LET lines == Flatten([i \in 1..Len(d) |-> SectionText(d[i])])
  IN Flatten([i \in 1..Len(lines) |-> lines[i] \o <<"\n">>])

Line(tag, text) == [tag |-> tag, text |-> text]
Hunk(oldStart, newStart, lines, noeol) ==
  [oldStart |-> oldStart, newStart |-> newStart, lines |-> lines, noeol |-> noeol]

\* the hunks the diffs are made of
Hunks ==
  [\* the hunk of the one-file scenario: ' a', '+b', ' c', ' d'
   top |-> Hunk(1, 1, <<Line(" ", <<"a">>), Line("+", <<"b">>),
                        Line(" ", <<"c">>), Line(" ", <<"d">>)>>, FALSE),
   \* a second hunk further down the same file
   low |-> Hunk(10, 11, <<Line(" ", <<"a">>), Line("-", <<"b">>),
                          Line("+", <<"c">>), Line(" ", <<"d">>)>>, FALSE),
   \* a removed line whose text starts with "-- " (a SQL or Lua comment)
   dashes |-> Hunk(5, 5, <<Line(" ", <<"a">>), Line("-", <<"-", "-", " ", "x">>),
                           Line("+", <<"b">>)>>, FALSE),
   \* the last context line is an empty line
   blankEnd |-> Hunk(7, 7, <<Line("-", <<"a">>), Line("+", <<"b">>),
                             Line(" ", <<>>)>>, FALSE),
   \* only removed lines
   removal |-> Hunk(3, 3, <<Line("-", <<"a">>)>>, FALSE),
   \* single added lines far apart (no context lines)
   line10 |-> Hunk(10, 10, <<Line("+", <<"a">>)>>, FALSE),
   line60 |-> Hunk(59, 60, <<Line("+", <<"b">>)>>, FALSE),
   newFile |-> Hunk(0, 1, <<Line("+", <<"a">>), Line("+", <<"b">>)>>, FALSE),
   newFileNoEol |-> Hunk(0, 1, <<Line("+", <<"a">>), Line("+", <<"b">>)>>, TRUE),
   deletedFile |-> Hunk(1, 0, <<Line("-", <<"a">>), Line("-", <<"b">>)>>, FALSE)]

ChangedHunks == {<<Hunks.top>>, <<Hunks.top, Hunks.low>>, <<Hunks.dashes>>, <<Hunks.blankEnd>>}
Section(kind, name, hunks) == [kind |-> kind, name |-> name, hunks |-> hunks]
Sections ==
  {Section("modified", n, hs) : n \in FileNames, hs \in ChangedHunks}
  \cup {Section("renamed", n, hs) : n \in FileNames, hs \in ChangedHunks \cup {<<>>}}
  \cup {Section("new", n, <<h>>) : n \in FileNames, h \in {Hunks.newFile, Hunks.newFileNoEol}}
  \cup {Section("deleted", n, <<Hunks.deletedFile>>) : n \in FileNames}

\* every diff of up to MaxSections files, no file twice
DiffsOver(secs) ==
  {d \in UNION {[1..k -> secs] : k \in 1..MaxSections} :
     \A i, j \in 1..Len(d) : i # j => d[i].name # d[j].name}

\* ----------------------------------------------- diff.js: parseDiffPositions
\* String.prototype.split("\n")
RECURSIVE SplitLines(_)
SplitLines(s) ==
  IF \E i \in 1..Len(s) : s[i] = "\n"
  THEN LET i == Min({j \in 1..Len(s) : s[j] = "\n"})
       IN <<SubSeq(s, 1, i - 1)>> \o SplitLines(SubSeq(s, i + 1, Len(s)))
  ELSE <<s>>

IsDigit(ch) == \E i \in 1..Len(DigitChars) : DigitChars[i] = ch
DigitVal(ch) == (CHOOSE i \in 1..Len(DigitChars) : DigitChars[i] = ch) - 1
\* \d+ at i: the index after the run of digits
RECURSIVE DigitsEnd(_, _)
DigitsEnd(s, i) == IF i <= Len(s) /\ IsDigit(s[i]) THEN DigitsEnd(s, i + 1) ELSE i
\* parseInt(..., 10) of the digits s[i..j-1]
RECURSIVE ParseInt(_, _, _)
ParseInt(s, i, j) == IF j <= i THEN 0 ELSE ParseInt(s, i, j - 1) * 10 + DigitVal(s[j - 1])
\* (?:,\d+)? at i: the index after it
OptCount(s, i) ==
  IF i <= Len(s) /\ s[i] = "," /\ DigitsEnd(s, i + 1) > i + 1 THEN DigitsEnd(s, i + 1) ELSE i

\* raw.match(/^\+\+\+ b\/(.+)/): the captured path, <<>> when there is no match
fileMatch(raw) ==
  IF StartsWith(raw, <<"+", "+", "+", " ", "b", "/">>) /\ Len(raw) > 6 THEN SubSeq(raw, 7, Len(raw)) ELSE <<>>

\* raw.match(/^@@ -\d+(?:,\d+)? \+(\d+)(?:,\d+)? @@/): the captured start, NoVal
\* when there is no match
hunkMatch(raw) ==
  LET at(i, p) == i + Len(p) - 1 <= Len(raw) /\ SubSeq(raw, i, i + Len(p) - 1) = p
      b == DigitsEnd(raw, 5)
      c == OptCount(raw, b)
      e == DigitsEnd(raw, c + 2)
      f == OptCount(raw, e)
  IN IF /\ StartsWith(raw, <<"@", "@", " ", "-">>) /\ b > 5
        /\ at(c, <<" ", "+">>) /\ e > c + 2
        /\ at(f, <<" ", "@", "@">>)
     THEN ParseInt(raw, c + 2, e) ELSE NoVal

NoFile == <<>>      \* null, a missing path
\* obj[k] = v
Put(f, k, v) == [x \in DOMAIN f \cup {k} |-> IF x = k THEN v ELSE f[x]]

\* one turn of `for (const raw of diff.split("\n"))`
parseLine(st, raw) ==
  IF fileMatch(raw) # <<>>
  THEN [st EXCEPT !.currentFile = fileMatch(raw),
                  !.files = IF fileMatch(raw) \in DOMAIN @ THEN @
                            ELSE Put(@, fileMatch(raw),
                                     [lineToPosition |-> <<>>, validPositions |-> {}]),
                  !.position = 0]
  ELSE IF StartsWith(raw, <<"-", "-", "-", " ">>) THEN st
  ELSE IF hunkMatch(raw) # NoVal THEN [st EXCEPT !.newLine = hunkMatch(raw)]
  ELSE IF st.currentFile = NoFile THEN st
  ELSE IF \/ StartsWith(raw, <<"d", "i", "f", "f", " ">>) \/ StartsWith(raw, <<"i", "n", "d", "e", "x", " ">>)
          \/ StartsWith(raw, <<"B", "i", "n", "a", "r", "y", " ">>) \/ StartsWith(raw, <<"\\">>)
  THEN st
  ELSE LET position == st.position + 1
           cf == st.currentFile
           fd == st.files[cf]
           entered == [fd EXCEPT !.lineToPosition = Put(@, st.newLine, position),
                                 !.validPositions = @ \cup {position}]
       IN IF StartsWith(raw, <<"+">>)
          THEN [st EXCEPT !.position = position, !.files[cf] = entered, !.newLine = @ + 1]
          ELSE IF StartsWith(raw, <<"-">>)
          THEN [st EXCEPT !.position = position,
                          !.files[cf].validPositions = @ \cup {position}]
          ELSE [st EXCEPT !.position = position, !.files[cf] = entered, !.newLine = @ + 1]

RECURSIVE parseLines(_, _)
parseLines(st, lines) ==
  IF lines = <<>> THEN st ELSE parseLines(parseLine(st, Head(lines)), Tail(lines))

parseDiffPositions(diff) ==
  parseLines([files |-> <<>>, currentFile |-> NoFile, position |-> 0, newLine |-> 0],
             SplitLines(diff)).files

\* ----------------------------------------------- diff.js: lineToPosition
NoPosition == 0     \* null
\* Object.keys(map).map(Number): integer keys come in ascending order
KeysOf(map) == SeqOfSet(DOMAIN map)

\* variant: a later key at the same distance replaces the closest one
RECURSIVE closestLineLast(_, _, _)
closestLineLast(lines, targetLine, closest) ==
  IF lines = <<>> THEN closest
  ELSE closestLineLast(Tail(lines), targetLine,
         IF Abs(targetLine - Head(lines)) <= Abs(targetLine - closest)
         THEN Head(lines) ELSE closest)

\* the scan `for (const line of lines)` with `if (dist < minDist)`
RECURSIVE closestLine(_, _, _)
closestLine(lines, targetLine, closest) ==
  IF lines = <<>> THEN closest
  ELSE closestLine(Tail(lines), targetLine,
         IF Abs(targetLine - Head(lines)) < Abs(targetLine - closest)
         THEN Head(lines) ELSE closest)

\* variant: the nearest line itself is returned, not the position stored for it
lineToPositionNearestLine(file, targetLine, dd) ==
  IF file \notin DOMAIN dd THEN NoPosition
  ELSE LET map == dd[file].lineToPosition IN
       IF targetLine \in DOMAIN map /\ map[targetLine] # 0 THEN map[targetLine]
       ELSE IF KeysOf(map) = <<>> THEN NoPosition
       ELSE closestLine(KeysOf(map), targetLine, KeysOf(map)[1])

lineToPosition(file, targetLine, dd) ==
  IF file \notin DOMAIN dd THEN NoPosition
  ELSE LET map == dd[file].lineToPosition IN
       IF targetLine \in DOMAIN map /\ map[targetLine] # 0 THEN map[targetLine]
       ELSE IF KeysOf(map) = <<>> THEN NoPosition
       ELSE map[closestLine(KeysOf(map), targetLine, KeysOf(map)[1])]

\* ------------------------------------- review.js: mapFindingsToPositions
\* variant: the last position of the file
largestPosition(validPositions) == Max(validPositions)
\* Math.min(...fileData.validPositions)
smallestPosition(validPositions) == Min(validPositions)

\* a finding of the agent's answer; position is what the mapping adds to it
Finding(file, line, message) ==
  [file |-> file, line |-> line, message |-> message, position |-> NoPosition,
   severity |-> <<"H", "I", "G", "H">>]

\* variant: the position found is added to the one the finding carries
mapFindingAdded(finding, dd) ==
  IF finding.file = NoFile THEN finding
  ELSE LET targetLine == IF finding.line = NoVal THEN 0 ELSE finding.line IN
       IF targetLine = 0
       THEN [finding EXCEPT !.position =
               IF finding.file \in DOMAIN dd /\ dd[finding.file].validPositions # {}
               THEN @ + smallestPosition(dd[finding.file].validPositions)
               ELSE NoPosition]
       ELSE [finding EXCEPT !.position = @ + lineToPosition(finding.file, targetLine, dd)]

\* one turn of `for (const finding of findings)`: the finding with its position
mapFinding(finding, dd) ==
  IF finding.file = NoFile THEN finding
  ELSE LET targetLine == IF finding.line = NoVal THEN 0 ELSE finding.line IN
       IF targetLine = 0
       THEN [finding EXCEPT !.position =
               IF finding.file \in DOMAIN dd /\ dd[finding.file].validPositions # {}
               THEN smallestPosition(dd[finding.file].validPositions)
               ELSE NoPosition]
       ELSE [finding EXCEPT !.position = lineToPosition(finding.file, targetLine, dd)]

mapFindingsToPositions(fs, dd) ==
  [i \in 1..Len(fs) |-> mapFinding(fs[i], dd)]

\* ------------------------------------------- review.js: postInlineReview
\* variant: a comment per finding, nothing joined
RECURSIVE commentsOfUnmerged(_, _)
commentsOfUnmerged(fs, acc) ==
  IF fs = <<>> THEN acc
  ELSE LET f == Head(fs)
       IN IF f.file = NoFile \/ f.position = NoPosition THEN commentsOfUnmerged(Tail(fs), acc)
          ELSE commentsOfUnmerged(Tail(fs),
                 Append(acc, [path |-> f.file, position |-> f.position,
                              body |-> <<f.message>>, severities |-> <<f.severity>>]))

\* variant: the key of commentMap is the file alone
RECURSIVE commentsOfByFile(_, _)
commentsOfByFile(fs, acc) ==
  IF fs = <<>> THEN acc
  ELSE LET f == Head(fs)
           at == {i \in 1..Len(acc) : acc[i].path = f.file}
       IN IF f.file = NoFile \/ f.position = NoPosition THEN commentsOfByFile(Tail(fs), acc)
          ELSE IF at # {}
          THEN commentsOfByFile(Tail(fs),
                 [acc EXCEPT ![Min(at)].body = Append(@, f.message),
                             ![Min(at)].severities = Append(@, f.severity)])
          ELSE commentsOfByFile(Tail(fs),
                 Append(acc, [path |-> f.file, position |-> f.position,
                              body |-> <<f.message>>, severities |-> <<f.severity>>]))

\* commentMap: one comment per `${f.file}:${f.position}`, bodies joined
RECURSIVE commentsOf(_, _)
commentsOf(fs, acc) ==
  IF fs = <<>> THEN acc
  ELSE LET f == Head(fs)
           at == {i \in 1..Len(acc) : acc[i].path = f.file /\ acc[i].position = f.position}
       IN IF f.file = NoFile \/ f.position = NoPosition THEN commentsOf(Tail(fs), acc)
          ELSE IF at # {}
          THEN commentsOf(Tail(fs),
                 [acc EXCEPT ![Min(at)].body = Append(@, f.message),
                             ![Min(at)].severities = Append(@, f.severity)])
          ELSE commentsOf(Tail(fs),
                 Append(acc, [path |-> f.file, position |-> f.position,
                              body |-> <<f.message>>, severities |-> <<f.severity>>]))

\* what a call of postReview or postComment comes to: the content is posted
\* through the App API or, when that returns nothing, through the gh CLI; both
\* may fail without an exception (ghExec returns null), and fetch may throw
PostResults == {"app", "gh", "none", "threw"}
Accepted(res) == res \in {"app", "gh"}

\* a call of github.postReview or github.postComment with its content: the
\* calls made, in order, and what the platform accepted of them
Post(api, res, output) ==
  [calls |-> <<[api |-> api, res |-> res]>>,
   posted |-> IF Accepted(res) THEN <<[output EXCEPT !.via = res]>> ELSE <<>>]

\* variant: the comment lists the findings without a position only
postFallbackCommentUnresolved(type, fs, com) ==
  LET Unresolved(f) == f.position = NoPosition
  IN Post("comment", com,
          [type |-> type, kind |-> "fallback", comments |-> <<>>,
           listed |-> SelectSeq(fs, Unresolved), via |-> "none"])

\* `- **[sev]** \`file:line\` - message` for every finding of the rubric
postFallbackComment(type, fs, com) ==
  Post("comment", com,
       [type |-> type, kind |-> "fallback", comments |-> <<>>, listed |-> fs, via |-> "none"])

\* variant: a rejected review is not followed by the fallback comment
postInlineReviewNoFallback(type, fs, rev, com) ==
  IF commentsOf(fs, <<>>) = <<>> THEN postFallbackComment(type, fs, com)
  ELSE Post("review", rev,
            [type |-> type, kind |-> "review",
             comments |-> commentsOf(fs, <<>>), listed |-> <<>>, via |-> "none"])

\* what one rubric with findings posts: a review with the inline comments, or the
\* fallback comment when nothing can be pinned or postReview returns false
postInlineReview(type, fs, rev, com) ==
  IF commentsOf(fs, <<>>) = <<>> THEN postFallbackComment(type, fs, com)
  ELSE LET review == Post("review", rev,
                          [type |-> type, kind |-> "review",
                           comments |-> commentsOf(fs, <<>>), listed |-> <<>>, via |-> "none"])
       IN IF rev = "none"
          THEN [calls |-> review.calls \o postFallbackComment(type, fs, com).calls,
                posted |-> postFallbackComment(type, fs, com).posted]
          ELSE review

\* config.js: BOT_MARKER
BOT_MARKER ==
  <<"\n", "\n", "<", "!", "-", "-", " ", "p", "r", "-", "r", "e", "v", "i",
    "e", "w", "e", "r", "-", "b", "o", "t", " ", "-", "-", ">">>

\* the texts isUserComment looks for, and the end of a fallback or summary comment
Texts ==
  [marker |-> SubSeq(BOT_MARKER, 3, Len(BOT_MARKER)),
   automated |->
     <<"A", "u", "t", "o", "m", "a", "t", "e", "d", " ", "r", "e", "v", "i",
       "e", "w", " ", "b", "y", " ", "P", "R", " ", "R", "e", "v", "i", "e",
       "w", "e", "r">>,
   summary |-> <<"R", "e", "v", "i", "e", "w", " ", "S", "u", "m", "m", "a", "r", "y">>,
   passed |-> <<"*", "*", "P", "A", "S", "S", "E", "D", "*", "*">>,
   fixed |-> <<"F", "i", "x", "e", "d", " ", "i", "n", " ", "c", "o", "m", "m", "i", "t">>,
   footer |-> 
     <<"\n", "-", "-", "-", "\n", "*", "A", "u", "t", "o", "m", "a", "t",
       "e", "d", " ", "r", "e", "v", "i", "e", "w", " ", "b", "y", " ", "P",
       "R", " ", "R", "e", "v", "i", "e", "w", "e", "r", "*">>]

\* String.prototype.includes
Includes(s, p) == \E i \in 0..(Len(s) - Len(p)) : SubSeq(s, i + 1, i + Len(p)) = p

\* the body of an inline comment: `**[${f.severity}]** ${f.message}` for every
\* finding at the location, joined with a blank line (a message is one token)
InlineBody(c) ==
  LET part(i) == <<"*", "*", "[">> \o c.severities[i] \o <<"]", "*", "*", " ">> \o <<c.body[i]>>
      joined[i \in 1..Len(c.body)] ==
        IF i = 1 THEN part(1) ELSE joined[i - 1] \o <<"\n", "\n">> \o part(i)
  IN joined[Len(c.body)]

\* the body of the fallback comment: heading, one line per finding, footer, marker
\* (the label, the line number and a message are one token each)
FallbackBody(o) ==
  LET line(f) == <<"-", " ", "*", "*", "[">> \o f.severity \o <<"]", "*", "*", " ">>
                   \o f.file \o <<":", "line", " ", f.message, "\n">>
      lines[i \in 0..Len(o.listed)] ==
        IF i = 0 THEN <<"#", "#", " ", o.type, "\n", "\n">> ELSE lines[i - 1] \o line(o.listed[i])
  IN lines[Len(o.listed)] \o Texts.footer \o BOT_MARKER

\* postSummaryComment: heading, one line per rubric (one token), footer, marker
postSummaryComment(com) ==
  Post("comment", com,
       [type |-> "summary", kind |-> "summary", comments |-> <<>>, listed |-> <<>>,
        via |-> "none"])

SummaryBody ==
  <<"#", "#", " ">> \o Texts.summary \o <<"\n", "lines">> \o Texts.footer \o BOT_MARKER

\* who a post is made as: the App's bot account, or the user of the gh CLI
Author(via) ==
  IF via = "app" THEN [login |-> "pr-reviewer[bot]", type |-> "Bot"]
  ELSE [login |-> "dev", type |-> "User"]

\* what pulls/N/comments and issues/N/comments return for the outputs of a pass:
\* the inline comments of the reviews, then the general comments (the body of a
\* review is on neither list)
PlatformComments(outs) ==
  LET inline(o) == [i \in 1..Len(o.comments) |->
                      [body |-> InlineBody(o.comments[i]), user |-> Author(o.via),
                       isInline |-> TRUE]]
      general(o) == IF o.kind = "fallback"
                    THEN <<[body |-> FallbackBody(o), user |-> Author(o.via), isInline |-> FALSE]>>
                    ELSE IF o.kind = "summary"
                    THEN <<[body |-> SummaryBody, user |-> Author(o.via), isInline |-> FALSE]>>
                    ELSE <<>>
      all[i \in 0..Len(outs)] ==
        IF i = 0 THEN [in |-> <<>>, gen |-> <<>>]
        ELSE [in |-> all[i - 1].in \o inline(outs[i]), gen |-> all[i - 1].gen \o general(outs[i])]
  IN all[Len(outs)].in \o all[Len(outs)].gen

\* github.isUserComment
isUserComment(c) ==
  LET GITHUB_USERNAME == scn.username
      severities == {<<"C", "R", "I", "T", "I", "C", "A", "L">>, <<"H", "I", "G", "H">>,
                     <<"M", "E", "D", "I", "U", "M">>, <<"L", "O", "W">>}
  IN IF Includes(c.body, Texts.marker) THEN FALSE
     ELSE IF GITHUB_USERNAME # "" /\ c.user.login # GITHUB_USERNAME THEN FALSE
     ELSE IF c.user.type = "Bot" THEN FALSE
     ELSE IF Includes(c.body, Texts.automated) THEN FALSE
     ELSE IF \E sev \in severities :
               StartsWith(c.body, <<"*", "*", "[">> \o sev \o <<"]", "*", "*">>) THEN FALSE
     ELSE IF Includes(c.body, Texts.summary) THEN FALSE
     ELSE IF Includes(c.body, Texts.passed) THEN FALSE
     ELSE IF StartsWith(c.body, Texts.fixed) THEN FALSE
     ELSE TRUE

\* a rubric without findings: postReview with no comments, its result is dropped
postPassedReview(type, rev) ==
  Post("review", rev,
       [type |-> type, kind |-> "passed", comments |-> <<>>, listed |-> <<>>, via |-> "none"])

\* --------------------------------------------------------------- bookkeeping
B(ok) == IF ok THEN 0 ELSE 1
WriteOutcomes == {"ok", "fail", "torn"}
WFaults(w) == IF w = "fail" THEN 1 ELSE 0
WCrashes(w) == IF w = "torn" THEN 1 ELSE 0
CanSpend(nf, nc) == budget.faults + nf <= scn.faults /\ budget.crashes + nc <= scn.crashes
CanWrite(w) == (w = "torn") => scn.torn
Spend(nf, nc) == budget' = [budget EXCEPT !.faults = @ + nf, !.crashes = @ + nc]

IdsOn(d) == IF d.kind = "ok"
            THEN UNION {Range(d.data[k].ids) : k \in Keys} ELSE {}

\* pull requests whose review pass is between entry and the record write
InPass(ts) == {ts[t].prs[ts[t].pi].key :
                 t \in {u \in 1..MaxLive : ts[u].pc \in {"rubric", "run", "summary"}}}

Commit(m1, ts1, os1, as1) ==
  /\ mem' = CanonMem(m1, ts1)
  /\ tasks' = CanonTasks(m1, ts1)
  /\ objs' = CanonObjs(m1, ts1, os1)
  /\ arrs' = CanonArrs(m1, ts1, os1, as1)

\* the process is gone: nothing of its memory survives
Down(d, cut) ==
  /\ proc' = "down" /\ cur' = 0
  /\ tasks' = [t \in 1..MaxLive |-> IdleTask]
  /\ mem' = [k \in Keys |-> 0]
  /\ objs' = [i \in HeapIds |-> FreeObj]
  /\ arrs' = [i \in HeapIds |-> <<>>]
  /\ disk' = d
  /\ everPersisted' = everPersisted \cup IdsOn(d)
  /\ crashedInPass' = crashedInPass \cup cut

\* state.save: writeFileSync(STATE_FILE, JSON.stringify(reviewState)); the write
\* succeeds, throws (caught, logged), or the process dies inside it
save(w, m1, ts1, os1, as1, cur1, proc1, cut) ==
  LET data == Serialize(m1, os1, as1) IN
  IF w = "torn"
  THEN Down(TornDisk(disk, data), cut)
  ELSE /\ Commit(m1, ts1, os1, as1)
       /\ disk' = (IF w = "ok" THEN OkDisk(data) ELSE disk)
       /\ everPersisted' = everPersisted \cup (IF w = "ok" THEN IdsOn(OkDisk(data)) ELSE {})
       /\ cur' = cur1 /\ proc' = proc1
       /\ crashedInPass' = crashedInPass

\* variant: a successful write puts only the entry that is set into the file
setWritesEntry(k, ref, w, m1, ts1, os1, as1, cur1, proc1, cut) ==
  LET m2 == [m1 EXCEPT ![k] = ref]
      data == [Parsed(disk) EXCEPT ![k] = Serialize(m2, os1, as1)[k]]
  IN IF w = "torn"
     THEN Down(TornDisk(disk, data), cut)
     ELSE /\ Commit(m2, ts1, os1, as1)
          /\ disk' = (IF w = "ok" THEN OkDisk(data) ELSE disk)
          /\ everPersisted' = everPersisted \cup (IF w = "ok" THEN IdsOn(OkDisk(data)) ELSE {})
          /\ cur' = cur1 /\ proc' = proc1
          /\ crashedInPass' = crashedInPass

\* state.set
set(k, ref, w, m1, ts1, os1, as1, cur1, proc1, cut) ==
  save(w, [m1 EXCEPT ![k] = ref], ts1, os1, as1, cur1, proc1, cut)

\* no position-mapping pass is followed
PassIdle ==
  /\ prDiff = <<>> /\ rawDiff = <<>> /\ diffData = <<>>
  /\ parsedFindings = <<>> /\ postedReviews = <<>>
  /\ pass = [pc |-> "none", rub |-> 0, results |-> <<>>, fetched |-> <<>>]

InitProgram(s) ==
  /\ scn = s
  /\ proc = "down" /\ cur = 0
  /\ tasks = [t \in 1..MaxLive |-> IdleTask]
  /\ mem = [k \in Keys |-> 0]
  /\ objs = [i \in HeapIds |-> FreeObj]
  /\ arrs = [i \in HeapIds |-> <<>>]
  /\ disk = MissingDisk
  /\ label = [k \in Keys |-> FALSE]
  /\ head = [k \in Keys |-> 1]
  /\ posted = {}
  /\ now = Epoch
  /\ budget = [cycles |-> 0, faults |-> 0, crashes |-> 0, advances |-> 0, pushes |-> 0]
  /\ ev = NoEvent
  /\ everPersisted = {} /\ completed = {} /\ passes = {} /\ threw = {}
  /\ crashedInPass = {} /\ abortedPass = {} /\ thrownPass = {}

InitWith(s) == InitProgram(s) /\ PassIdle

\* ------------------------------------------------------ reviewer.js: main
NewCycle == [IdleTask EXCEPT !.pc = "poll", !.phase = 1, !.ri = 1]

\* main: state.load(); state.cleanup(); the first pollCycle() is started
Start ==
  /\ proc = "down" /\ budget.cycles < scn.cycles
  /\ \E w \in {"ok", "fail"} :
       LET loaded == Parsed(disk)
           swept == cleanup(loaded, now)
           cleaned == swept # loaded
           nf == IF cleaned THEN WFaults(w) ELSE 0
       IN /\ (~cleaned => w = "ok")
          /\ CanSpend(nf, 0)
          /\ budget' = [budget EXCEPT !.cycles = @ + 1, !.faults = @ + nf]
          /\ mem' = HeapMem(swept) /\ objs' = HeapObjs(swept) /\ arrs' = HeapArrs(swept)
          /\ disk' = (IF cleaned /\ w = "ok" THEN OkDisk(swept) ELSE disk)
          /\ everPersisted' = everPersisted \cup IdsOn(disk')
          /\ ev' = [op |-> "load", kind |-> disk.kind, loaded |-> loaded]
  /\ tasks' = [t \in 1..MaxLive |-> IF t = 1 THEN NewCycle ELSE IdleTask]
  /\ cur' = 1 /\ proc' = "first"
  /\ UNCHANGED <<envVars, completed, passes, threw, crashedInPass, abortedPass, thrownPass>>
  /\ UNCHANGED <<scn, passVars>>

\* the setInterval callback: pollCycle() is started whether or not an earlier
\* one is still suspended
TimerFire ==
  /\ proc = "running" /\ cur = 0 /\ budget.cycles < scn.cycles
  /\ \E t \in 1..MaxLive :
       /\ tasks[t].pc = "idle"
       /\ \A u \in 1..(t - 1) : tasks[u].pc # "idle"
       /\ tasks' = [tasks EXCEPT ![t] = NewCycle]
       /\ cur' = t
  /\ budget' = [budget EXCEPT !.cycles = @ + 1]
  /\ ev' = [op |-> "tick"]
  /\ UNCHANGED <<proc, mem, objs, arrs, disk, envVars, ghostSets>>
  /\ UNCHANGED <<scn, passVars>>

\* ------------------------------------------------------ comments.js: poll
\* top of `for (const repo of REPOS)`; past the last repo the poll is over:
\* pollForReviews follows the first poll, the cycle ends after the second
PollRepo(t) ==
  /\ proc # "down" /\ cur = t /\ tasks[t].pc = "poll"
  /\ LET T == tasks[t] IN
     IF T.ri > Len(REPOS)
     THEN /\ IF T.phase = 1
             THEN /\ tasks' = [tasks EXCEPT ![t] = [T EXCEPT !.pc = "rev", !.phase = 2, !.ri = 1]]
                  /\ UNCHANGED <<cur, proc>>
             ELSE /\ tasks' = [tasks EXCEPT ![t] = IdleTask]
                  /\ cur' = 0 /\ proc' = "running"
          /\ UNCHANGED budget
     ELSE IF REPOS[T.ri] \notin PROJECT_DIRS
     THEN /\ tasks' = [tasks EXCEPT ![t] = [T EXCEPT !.ri = @ + 1]]
          /\ UNCHANGED <<cur, proc, budget>>
     ELSE \E ok \in BOOLEAN :
            /\ CanSpend(B(ok), 0) /\ Spend(B(ok), 0)
            /\ tasks' = [tasks EXCEPT ![t] =
                 [T EXCEPT !.pc = "pollPR", !.pi = 1,
                           !.prs = IF ok THEN listOpenPRs(REPOS[T.ri]) ELSE <<>>]]
            /\ UNCHANGED <<cur, proc>>
  /\ ev' = (IF tasks[t].ri <= Len(REPOS) /\ REPOS[tasks[t].ri] \notin PROJECT_DIRS
            THEN [op |-> "skip", repo |-> REPOS[tasks[t].ri],
                  waiting |-> {c \in posted : /\ CKey(c).repo = REPOS[tasks[t].ri]
                                               /\ CKey(c) \in scn.open
                                               /\ ~Contains(StoreView[CKey(c)].ids, c)}]
            ELSE NoEvent)
  /\ UNCHANGED <<mem, objs, arrs, disk, envVars, ghostSets>>
  /\ UNCHANGED <<scn, passVars>>

\* `for (const pr of prs)`: state.get(...) || {}, the array is created on the
\* entry itself when it has none, the comments are fetched and filtered
PollPR(t) ==
  /\ proc # "down" /\ cur = t /\ tasks[t].pc = "pollPR"
  /\ LET T == tasks[t] IN
     IF T.pi > Len(T.prs)
     THEN /\ tasks' = [tasks EXCEPT ![t] =
                 [T EXCEPT !.pc = "poll", !.ri = @ + 1, !.prs = <<>>, !.pi = 0]]
          /\ UNCHANGED <<mem, objs, arrs, budget>>
     ELSE LET k == T.prs[T.pi].key
              o == get(mem, k)
              ref == IF o = 0 THEN TmpId ELSE o
              os1 == IF o = 0 THEN [objs EXCEPT ![TmpId] = EmptyObj] ELSE objs
              fresh == os1[ref].pci = 0
              os2 == IF fresh THEN [os1 EXCEPT ![ref].pci = TmpId] ELSE os1
              as2 == IF fresh THEN [arrs EXCEPT ![TmpId] = <<>>] ELSE arrs
          IN \E reviewOk, issueOk \in BOOLEAN :
               LET comments == mergeAndFilter(k, as2[os2[ref].pci], reviewOk, issueOk) IN
               /\ CanSpend(B(reviewOk) + B(issueOk), 0)
               /\ Spend(B(reviewOk) + B(issueOk), 0)
               /\ IF comments = <<>>
                  THEN Commit(mem, [tasks EXCEPT ![t] = [T EXCEPT !.pi = @ + 1]], os2, as2)
                  ELSE Commit(mem, [tasks EXCEPT ![t] =
                                [T EXCEPT !.pc = "cmt", !.prState = ref,
                                          !.cmts = comments, !.ci = 1]], os2, as2)
  /\ ev' = NoEvent
  /\ UNCHANGED <<cur, proc, disk, envVars, ghostSets>>
  /\ UNCHANGED <<scn, passVars>>

\* after handleComment: processedCommentIds.push(comment.id); state.set(...);
\* then the cycle sleeps
FinishComment(t, w, nf) ==
  LET T == tasks[t]
      c == T.cmts[T.ci]
      k == T.prs[T.pi].key
      a == objs[T.prState].pci
      as1 == [arrs EXCEPT ![a] = Append(@, c)]
      ts1 == [tasks EXCEPT ![t] = [T EXCEPT !.pc = "csleep"]]
  IN /\ CanWrite(w) /\ CanSpend(nf + WFaults(w), WCrashes(w))
     /\ Spend(nf + WFaults(w), WCrashes(w))
     /\ set(k, T.prState, w, mem, ts1, objs, as1, 0, proc, InPass(tasks))

\* handleComment up to its first suspension: !review adds the label and returns,
\* !fix and !fix-lint throw when the branch lookup fails, else the agent is run
CommentStart(t) ==
  /\ proc # "down" /\ cur = t /\ tasks[t].pc = "cmt"
  /\ LET T == tasks[t]
         c == T.cmts[T.ci]
         k == T.prs[T.pi].key
         command == parseCommand(CBody(c))
         handle(failed, w) == [op |-> "handle", c |-> c, key |-> k, t |-> t,
                               command |-> command,
                               recorded |-> StoreView[k].used,
                               persisted |-> (c \in everPersisted),
                               again |-> (c \in threw), threw |-> failed, w |-> w]
     IN \E ok \in BOOLEAN, w \in WriteOutcomes :
          IF command = "review"
          THEN /\ label' = (IF ok THEN [label EXCEPT ![k] = TRUE] ELSE label)
               /\ FinishComment(t, w, B(ok))
               /\ threw' = (IF ok THEN threw ELSE threw \cup {c})
               /\ ev' = handle(~ok, w)
               /\ UNCHANGED <<head, posted, now>>
          ELSE IF command \in {"fix", "fix-lint"} /\ ~ok
          THEN /\ FinishComment(t, w, 1)
               /\ threw' = threw \cup {c}
               /\ ev' = handle(TRUE, w)
               /\ UNCHANGED envVars
          ELSE /\ ok /\ w = "ok"
               /\ tasks' = [tasks EXCEPT ![t] = [T EXCEPT !.pc = "handle"]]
               /\ cur' = 0
               /\ ev' = handle(FALSE, "none")
               /\ UNCHANGED <<proc, mem, objs, arrs, disk, budget, envVars,
                              everPersisted, threw, crashedInPass>>
  /\ UNCHANGED <<completed, passes, abortedPass, thrownPass>>
  /\ UNCHANGED <<scn, passVars>>

\* the agent run and the reply of a handler are over (or threw: caught, logged)
CommentResume(t) ==
  /\ proc # "down" /\ cur = 0 /\ tasks[t].pc = "handle"
  /\ LET c == tasks[t].cmts[tasks[t].ci] IN
     \E r \in scn.runs, sent \in BOOLEAN, w \in WriteOutcomes :
       LET raw == run(r)
           ok == raw.resolved /\ sent
       IN /\ (~raw.resolved => sent)
          /\ FinishComment(t, w, B(ok))
          /\ threw' = (IF ok THEN threw ELSE threw \cup {c})
          /\ ev' = [op |-> "processed", c |-> c, t |-> t,
                    key |-> tasks[t].prs[tasks[t].pi].key, threw |-> ~ok, w |-> w,
                    run |-> r, resolved |-> raw.resolved, failed |-> ~raw.resolved]
  /\ UNCHANGED <<envVars, completed, passes, abortedPass, thrownPass>>
  /\ UNCHANGED <<scn, passVars>>

\* sleep(2000) is over: next comment, or next pull request
CommentSleepDone(t) ==
  /\ proc # "down" /\ cur = 0 /\ tasks[t].pc = "csleep"
  /\ LET T == tasks[t] IN
     IF T.ci < Len(T.cmts)
     THEN Commit(mem, [tasks EXCEPT ![t] = [T EXCEPT !.pc = "cmt", !.ci = @ + 1]], objs, arrs)
     ELSE Commit(mem, [tasks EXCEPT ![t] =
                   [T EXCEPT !.pc = "pollPR", !.pi = @ + 1, !.prState = 0,
                             !.cmts = <<>>, !.ci = 0]], objs, arrs)
  /\ cur' = t
  /\ ev' = NoEvent
  /\ UNCHANGED <<proc, disk, budget, envVars, ghostSets>>
  /\ UNCHANGED <<scn, passVars>>

\* ----------------------------------------------- reviewer.js: pollForReviews
\* top of `for (const repo of REPOS)`: list, filter the reviewable ones
RevRepo(t) ==
  /\ proc # "down" /\ cur = t /\ tasks[t].pc = "rev"
  /\ LET T == tasks[t] IN
     IF T.ri > Len(REPOS)
     THEN /\ tasks' = [tasks EXCEPT ![t] = [T EXCEPT !.pc = "poll", !.phase = 3, !.ri = 1]]
          /\ ev' = NoEvent
          /\ UNCHANGED <<budget, crashedInPass, abortedPass, thrownPass>>
     ELSE \E ok \in BOOLEAN :
            LET prs == IF ok THEN listOpenPRs(REPOS[T.ri]) ELSE <<>>
                reviewable == Reviewable(prs, mem)
            IN /\ CanSpend(B(ok), 0) /\ Spend(B(ok), 0)
               /\ tasks' = [tasks EXCEPT ![t] =
                    IF reviewable = <<>>
                    THEN [T EXCEPT !.ri = @ + 1]
                    ELSE [T EXCEPT !.pc = "revPR", !.prs = reviewable, !.pi = 1]]
               /\ ev' = [op |-> "select", listed |-> SnapKeys(prs),
                         selected |-> SnapKeys(reviewable),
                         recorded |-> {k \in SnapKeys(prs) : get(mem, k) # 0},
                         labelled |-> {k \in SnapKeys(prs) : label[k]},
                         changed |-> {k \in SnapKeys(prs) \cap completed :
                                        get(mem, k) # 0
                                        /\ objs[get(mem, k)].commitSha # head[k]},
                         unseen |-> SnapKeys(prs) \ completed,
                         cut |-> SnapKeys(prs) \cap crashedInPass,
                         aborted |-> SnapKeys(prs) \cap abortedPass,
                         thrown |-> SnapKeys(prs) \cap thrownPass]
               /\ crashedInPass' = crashedInPass \ SnapKeys(reviewable)
               /\ abortedPass' = abortedPass \ SnapKeys(reviewable)
               /\ thrownPass' = thrownPass \ SnapKeys(reviewable)
  /\ UNCHANGED <<cur, proc, mem, objs, arrs, disk, envVars, everPersisted, completed, passes, threw>>
  /\ UNCHANGED <<scn, passVars>>

ClearPass(T) == [T EXCEPT !.commitSha = NoVal, !.shaOk = TRUE, !.rub = 0,
                          !.results = <<>>, !.failed = {}]

\* variant: the exception leaves both loops and ends the Review Cycle
catchReviewErrorEndsCycle(T) ==
  [ClearPass(T) EXCEPT !.pc = "rev", !.ri = Len(REPOS) + 1, !.prs = <<>>, !.pi = 0]

\* pollForReviews: `catch (err) { log(...) }` inside `for (const pr of
\* reviewable)`: the loop goes on with the next pull request
catchReviewError(T) == [ClearPass(T) EXCEPT !.pc = "revPR", !.pi = @ + 1]

\* `for (const pr of reviewable)`: entry of reviewPR. getFullCommitSha || headRefOid,
\* then getPRDiff; on abort reviewPR returns and the caller removes the label
RevPR(t) ==
  /\ proc # "down" /\ cur = t /\ tasks[t].pc = "revPR"
  /\ LET T == tasks[t] IN
     IF T.pi > Len(T.prs)
     THEN /\ tasks' = [tasks EXCEPT ![t] =
                 [T EXCEPT !.pc = "rev", !.ri = @ + 1, !.prs = <<>>, !.pi = 0]]
          /\ ev' = NoEvent
          /\ UNCHANGED <<budget, label, abortedPass, thrownPass>>
     ELSE LET pr == T.prs[T.pi]
              k == pr.key
          IN \E shaOk, diffOk, rmOk \in BOOLEAN :
               LET commitSha == IF shaOk THEN head[k] ELSE pr.oid
                   abort == entryAborts(commitSha, diffOk)
                   nf == B(shaOk) + B(diffOk) + B(rmOk)
               IN /\ (~(abort /\ pr.label) => rmOk)
                  /\ CanSpend(nf, 0) /\ Spend(nf, 0)
                  /\ ev' = [op |-> "entry", key |-> k, shaOk |-> shaOk,
                            diffOk |-> diffOk, aborted |-> abort, hadLabel |-> pr.label]
                  /\ IF abort
                     THEN /\ tasks' = [tasks EXCEPT ![t] = [T EXCEPT !.pi = @ + 1]]
                          /\ label' = (IF pr.label /\ rmOk
                                       THEN [label EXCEPT ![k] = FALSE] ELSE label)
                          /\ abortedPass' = abortedPass \cup {k}
                          /\ UNCHANGED thrownPass
                     ELSE /\ tasks' = [tasks EXCEPT ![t] =
                                 [T EXCEPT !.pc = "rubric", !.commitSha = commitSha,
                                           !.shaOk = shaOk, !.rub = 1, !.results = <<>>]]
                          /\ UNCHANGED <<label, abortedPass, thrownPass>>
  /\ UNCHANGED <<cur, proc, mem, objs, arrs, disk, head, posted, now,
                 everPersisted, completed, passes, threw, crashedInPass>>
  /\ UNCHANGED <<scn, passVars>>

\* --------------------------------------------------- review.js: reviewPR
\* top of `for (const reviewType of REVIEW_TYPES)`: a missing prompt file is an
\* entry with parsed null and the loop continues at once; else the agent is
\* run. Past the last rubric the summary comment is posted.
Rubric(t) ==
  /\ proc # "down" /\ cur = t /\ tasks[t].pc = "rubric"
  /\ LET T == tasks[t] IN
     IF T.rub > NumRubrics
     THEN /\ tasks' = [tasks EXCEPT ![t] = [T EXCEPT !.pc = "summary"]]
          /\ cur' = 0
          /\ UNCHANGED budget
     ELSE \E exists \in BOOLEAN :
            /\ CanSpend(B(exists), 0) /\ Spend(B(exists), 0)
            /\ IF exists
               THEN /\ tasks' = [tasks EXCEPT ![t] = [T EXCEPT !.pc = "run"]]
                    /\ cur' = 0
               ELSE /\ tasks' = [tasks EXCEPT ![t] =
                         [T EXCEPT !.rub = @ + 1, !.failed = @ \cup {T.rub},
                                   !.results = Append(@, [type |-> REVIEW_TYPES[T.rub],
                                                          parsed |-> NullParsed,
                                                          error |-> FALSE])]]
                    /\ UNCHANGED cur
  /\ ev' = NoEvent
  /\ UNCHANGED <<proc, mem, objs, arrs, disk, envVars, ghostSets>>
  /\ UNCHANGED <<scn, passVars>>

\* claude.run, parseReviewResponse and the posting of the rubric's review are
\* over: the result is pushed, or the catch pushes an error entry; sleep(2000)
RubricResume(t) ==
  /\ proc # "down" /\ cur = 0 /\ tasks[t].pc = "run"
  /\ LET T == tasks[t] IN
     \E r \in scn.runs, sent \in BOOLEAN, out \in AgentOutputs :
       LET raw == run(r)
           answered == raw.resolved /\ parseReviewResponse(raw.value)
           ok == answered /\ sent
       IN /\ (~answered => sent)
          /\ (~ok => out = CHOOSE o \in AgentOutputs : TRUE)
          /\ CanSpend(B(ok), 0) /\ Spend(B(ok), 0)
          /\ tasks' = [tasks EXCEPT ![t] =
               [T EXCEPT !.pc = "rubric", !.rub = @ + 1,
                         !.failed = IF ok THEN @ ELSE @ \cup {T.rub},
                         !.results = Append(@, [type |-> REVIEW_TYPES[T.rub],
                                                parsed |-> IF ok THEN out ELSE NullParsed,
                                                error |-> ~ok])]]
          /\ ev' = [op |-> "rubric", key |-> tasks[t].prs[tasks[t].pi].key,
                    run |-> r, resolved |-> raw.resolved, failed |-> ~answered]
  /\ cur' = t
  /\ UNCHANGED <<proc, mem, objs, arrs, disk, envVars, ghostSets>>
  /\ UNCHANGED <<scn, passVars>>

\* postSummaryComment is over. If it threw, reviewPR rejects and pollForReviews
\* logs it; else updateState writes {...existing, reviewedAt, lastPRUpdate,
\* commitSha, reviews} and the notification is sent
SummaryResume(t) ==
  /\ proc # "down" /\ cur = 0 /\ tasks[t].pc = "summary"
  /\ LET T == tasks[t]
         k == T.prs[T.pi].key
     IN \E postOk, updOk \in BOOLEAN, w \in WriteOutcomes :
          IF ~postOk
          THEN /\ updOk /\ w = "ok"
               /\ CanSpend(1, 0) /\ Spend(1, 0)
               /\ tasks' = [tasks EXCEPT ![t] = catchReviewError(T)]
               /\ cur' = t
               /\ ev' = [op |-> "threw", key |-> k, results |-> T.results,
                         hadLabel |-> T.prs[T.pi].label]
               /\ thrownPass' = thrownPass \cup {k}
               /\ UNCHANGED <<proc, mem, objs, arrs, disk, everPersisted,
                              completed, passes, threw, crashedInPass>>
          ELSE LET existing == get(mem, k)
                   base == IF existing = 0 THEN EmptyObj ELSE objs[existing]
                   updatedAt == IF updOk THEN <<"pr", head[k]>> ELSE <<"clock", now>>
                   obj == [base EXCEPT !.reviewedAt = now, !.lastPRUpdate = updatedAt,
                                       !.commitSha = T.commitSha,
                                       !.reviews = ReviewsOf(T.results)]
                   os1 == [objs EXCEPT ![TmpId] = obj]
                   ts1 == [tasks EXCEPT ![t] = [T EXCEPT !.pc = "notify"]]
               IN /\ CanWrite(w) /\ CanSpend(B(updOk) + WFaults(w), WCrashes(w))
                  /\ Spend(B(updOk) + WFaults(w), WCrashes(w))
                  /\ set(k, TmpId, w, mem, ts1, os1, arrs, 0, proc, InPass(tasks) \ {k})
                  /\ completed' = completed \cup {k}
                  /\ passes' = passes \cup {[key |-> k, commitSha |-> T.commitSha]}
                  /\ thrownPass' = thrownPass \ {k}
                  /\ UNCHANGED threw
                  /\ ev' = [op |-> "record", key |-> k, results |-> T.results,
                            failed |-> T.failed, w |-> w,
                            unsaved |-> {j \in Keys : StoreView[j] # Parsed(disk)[j]},
                            file |-> disk,
                            repeated |-> [key |-> k, commitSha |-> T.commitSha] \in passes]
  /\ UNCHANGED <<envVars, abortedPass>>
  /\ UNCHANGED <<scn, passVars>>

\* notifyReviewComplete is over, reviewPR returns:
\* if (hasReviewLabel) github.removeLabel(...)
NotifyResume(t) ==
  /\ proc # "down" /\ cur = 0 /\ tasks[t].pc = "notify"
  /\ LET T == tasks[t]
         pr == T.prs[T.pi]
     IN \E rmOk \in BOOLEAN :
          /\ (~pr.label => rmOk)
          /\ CanSpend(B(rmOk), 0) /\ Spend(B(rmOk), 0)
          /\ label' = (IF pr.label /\ rmOk THEN [label EXCEPT ![pr.key] = FALSE] ELSE label)
          /\ tasks' = [tasks EXCEPT ![t] = [ClearPass(T) EXCEPT !.pc = "revPR", !.pi = @ + 1]]
  /\ cur' = t
  /\ ev' = [op |-> "reviewed", key |-> tasks[t].prs[tasks[t].pi].key]
  /\ UNCHANGED <<proc, mem, objs, arrs, disk, head, posted, now, ghostSets>>
  /\ UNCHANGED <<scn, passVars>>

\* ------------------------------------------------------------ the process
\* the process is killed
Crash ==
  /\ proc # "down" /\ CanSpend(0, 1) /\ Spend(0, 1)
  /\ Down(disk, InPass(tasks))
  /\ ev' = [op |-> "crash"]
  /\ UNCHANGED <<envVars, completed, passes, threw, abortedPass, thrownPass>>
  /\ UNCHANGED <<scn, passVars>>

\* SIGINT / SIGTERM: state.save(); process.exit(0)
Shutdown ==
  /\ proc # "down" /\ cur = 0
  /\ \E w \in {"ok", "fail"} :
       /\ CanSpend(WFaults(w), 1) /\ Spend(WFaults(w), 1)
       /\ Down(IF w = "ok" THEN OkDisk(StoreView) ELSE disk, InPass(tasks))
  /\ ev' = [op |-> "exit"]
  /\ UNCHANGED <<envVars, completed, passes, threw, abortedPass, thrownPass>>
  /\ UNCHANGED <<scn, passVars>>

\* ------------------------------------------------------------ the world
PostComment(c) ==
  /\ c \in scn.comments /\ c \notin posted
  /\ \A d \in CommentIds : CKey(d) = CKey(c) /\ CCreated(d) < CCreated(c) => d \in posted
  /\ posted' = posted \cup {c}
  /\ ev' = NoEvent
  /\ UNCHANGED <<proc, cur, tasks, mem, objs, arrs, disk, label, head, now, budget, ghostSets>>
  /\ UNCHANGED <<scn, passVars>>

AddLabel(k) ==
  /\ ~label[k]
  /\ label' = [label EXCEPT ![k] = TRUE]
  /\ ev' = NoEvent
  /\ UNCHANGED <<proc, cur, tasks, mem, objs, arrs, disk, head, posted, now, budget, ghostSets>>
  /\ UNCHANGED <<scn, passVars>>

\* someone pushes a commit to the pull request
PushCommit(k) ==
  /\ k \in scn.open /\ budget.pushes < scn.pushes
  /\ head' = [head EXCEPT ![k] = @ + 1]
  /\ budget' = [budget EXCEPT !.pushes = @ + 1]
  /\ ev' = NoEvent
  /\ UNCHANGED <<proc, cur, tasks, mem, objs, arrs, disk, label, posted, now, ghostSets>>
  /\ UNCHANGED <<scn, passVars>>

AdvanceClock ==
  /\ budget.advances < scn.advances
  /\ \E d \in ClockSteps : now' = now + d
  /\ budget' = [budget EXCEPT !.advances = @ + 1]
  /\ ev' = NoEvent
  /\ UNCHANGED <<proc, cur, tasks, mem, objs, arrs, disk, label, head, posted, ghostSets>>
  /\ UNCHANGED <<scn, passVars>>

Scenario(cycles, crashes, torn, advances, faults, comments) ==
  [open |-> {K1}, comments |-> comments, cycles |-> cycles, crashes |-> crashes,
   torn |-> torn, advances |-> advances, faults |-> faults, pushes |-> 0,
   answers |-> {}, posts |-> {}, username |-> "",
   runs |-> {[end |-> "exit0", stdout |-> Answer], [end |-> "exit1", stdout |-> <<>>]},
   bodies |-> [c \in CommentIds |-> IF c = 1 THEN <<"!", "f", "i", "x">>
                ELSE <<" ", "!", "R", "e", "v", "i", "e", "w", "\n">>],
   on |-> [c \in CommentIds |-> K1]]

\* the scheduler: cycles may overlap, every call succeeds, the process stays up
Init == InitWith(Scenario(MaxCycles, 0, FALSE, 0, 0, CommentIds))

Next ==
  \/ Start
  \/ TimerFire
  \/ \E t \in 1..MaxLive : PollRepo(t)
  \/ \E t \in 1..MaxLive : PollPR(t)
  \/ \E t \in 1..MaxLive : CommentStart(t)
  \/ \E t \in 1..MaxLive : CommentResume(t)
  \/ \E t \in 1..MaxLive : CommentSleepDone(t)
  \/ \E t \in 1..MaxLive : RevRepo(t)
  \/ \E t \in 1..MaxLive : RevPR(t)
  \/ \E t \in 1..MaxLive : Rubric(t)
  \/ \E t \in 1..MaxLive : RubricResume(t)
  \/ \E t \in 1..MaxLive : SummaryResume(t)
  \/ \E t \in 1..MaxLive : NotifyResume(t)
  \/ \E c \in CommentIds : PostComment(c)
  \/ \E k \in Keys : AddLabel(k)

Spec == Init /\ [][Next]_vars

\* the process may be killed between two writes of the state file or shut
\* down, and is started again, possibly weeks later
InitRestart ==
  InitWith(Scenario(CrashCycles, MaxCrashes, FALSE, MaxAdvances, 0, CommentIds))

NextRestart == Next \/ Crash \/ Shutdown \/ AdvanceClock

SpecRestart == InitRestart /\ [][NextRestart]_vars

\* the same, and the process may also be killed inside a write of the state file
InitCrash ==
  InitWith(Scenario(CrashCycles, MaxCrashes, TRUE, MaxAdvances, 0, CommentIds))

SpecCrash == InitCrash /\ [][NextRestart]_vars

\* calls to the platform, the agent and the file system may fail, on a pull
\* request nobody comments on
InitFault == InitWith(Scenario(FaultCycles, 0, FALSE, 0, MaxFaults, {}))

NextFault ==
  \/ Start
  \/ TimerFire
  \/ \E t \in 1..MaxLive : PollRepo(t)
  \/ \E t \in 1..MaxLive : PollPR(t)
  \/ \E t \in 1..MaxLive : RevRepo(t)
  \/ \E t \in 1..MaxLive : RevPR(t)
  \/ \E t \in 1..MaxLive : Rubric(t)
  \/ \E t \in 1..MaxLive : RubricResume(t)
  \/ \E t \in 1..MaxLive : SummaryResume(t)
  \/ \E t \in 1..MaxLive : NotifyResume(t)
  \/ \E k \in Keys : AddLabel(k)

SpecFault == InitFault /\ [][NextFault]_vars

\* the same, over one more cycle: a failed pass and the cycle after it
InitRetry == InitWith(Scenario(RetryCycles, 0, FALSE, 0, MaxFaults, {}))

SpecRetry == InitRetry /\ [][NextFault]_vars

\* every call succeeds, nobody comments, and commits are pushed
InitPush ==
  InitWith([Scenario(PushCycles, 0, FALSE, 0, 0, {}) EXCEPT !.pushes = MaxPushes])

NextPush == NextFault \/ \E k \in Keys : PushCommit(k)

SpecPush == InitPush /\ [][NextPush]_vars

\* cycles may overlap while time passes: every call succeeds, the process stays up
InitClock == InitWith(Scenario(MaxCycles, 0, FALSE, MaxAdvances, 0, CommentIds))

NextClock == Next \/ AdvanceClock

SpecClock == InitClock /\ [][NextClock]_vars

\* two pull requests, reviewed while time passes, and a restart (after a kill,
\* a shutdown or a cut write of the state file) with its sweep
InitSweep ==
  InitWith([Scenario(CrashCycles, MaxCrashes, TRUE, MaxAdvances, 0, {}) EXCEPT !.open = Keys])

NextSweep == NextFault \/ Crash \/ Shutdown \/ AdvanceClock

SpecSweep == InitSweep /\ [][NextSweep]_vars

\* two pull requests, and calls or writes of the state file may fail
InitWrite == InitWith([Scenario(FaultCycles, 0, FALSE, 0, MaxFaults, {}) EXCEPT !.open = Keys])

SpecWrite == InitWrite /\ [][NextFault]_vars

\* people comment, and a call of a comment handler or a write may fail
InitCommand == InitWith(Scenario(CommandCycles, 0, FALSE, 0, CommandFaults, CommentIds))

SpecCommand == InitCommand /\ [][Next]_vars

\* the bodies a general comment may have: the command tokens, with other case
\* and surrounding blanks, and texts that only begin with or contain a token
Bodies ==
  { <<"!", "f", "i", "x">>,
    <<"!", "r", "e", "v", "i", "e", "w">>,
    <<"!", "f", "i", "x", "-", "l", "i", "n", "t">>,
    <<" ", "!", "R", "e", "v", "i", "e", "w", "\n">>,
    <<"\t", "!", "F", "I", "X", " ">>,
    <<"!", "F", "i", "x", "-", "L", "i", "n", "t", "\n">>,
    <<"!", "f", "i", "x", "-", "l", "i", "n", "t", " ", "n", "o", "w">>,
    <<"!", "f", "i", "x", "e", "s">>,
    <<"!", "f", "i", "x", " ", "i", "t">>,
    <<"!", "r", "e", "v", "i", "e", "w", "s">>,
    <<"!", "f", "i">>,
    <<"f", "i", "x">>,
    <<"n", "o", " ", "!", "f", "i", "x">>,
    <<>> }

\* one general comment with any of these bodies is on a reviewed pull request
InitClassify ==
  \E body \in Bodies :
    InitWith([Scenario(PushCycles, 0, FALSE, 0, 0, {1})
                EXCEPT !.bodies = [c \in CommentIds |-> body]])

SpecClassify == InitClassify /\ [][Next]_vars

\* someone comments "!review", and then "ok", on a pull request of either
\* repository; every call succeeds
InitTrigger ==
  \E k \in Keys :
    InitWith([Scenario(PushCycles, 0, FALSE, 0, 0, CommentIds)
                EXCEPT !.open = Keys,
                       !.bodies = [c \in CommentIds |->
                                     IF c = 1 THEN <<"!", "r", "e", "v", "i", "e", "w">>
                                     ELSE <<"o", "k">>],
                       !.on = [c \in CommentIds |-> k]])

SpecTrigger == InitTrigger /\ [][Next]_vars

\* the agent's invocations end in every way, with every output; one other call
\* may fail
InitAgent ==
  InitWith([Scenario(PushCycles, 0, FALSE, 0, MaxFaults, {1}) EXCEPT !.runs = Runs])

SpecAgent == InitAgent /\ [][Next]_vars

\* ------------------------------------- review.js: reviewPR, position mapping
\* reviewPR up to the rubric loop: the diff is fetched (ghExec trims the output)
\* and parsed; without a diff the pass is over
ReviewEntry ==
  /\ pass.pc = "start"
  /\ \E ok \in BOOLEAN :
       IF ok
       THEN /\ rawDiff' = Trim(DiffOutput(prDiff))
            /\ diffData' = parseDiffPositions(Trim(DiffOutput(prDiff)))
            /\ pass' = [pass EXCEPT !.pc = "rubric", !.rub = 1]
       ELSE /\ pass' = [pass EXCEPT !.pc = "aborted"]
            /\ UNCHANGED <<rawDiff, diffData>>
  /\ UNCHANGED <<prDiff, parsedFindings, postedReviews>>
  /\ UNCHANGED progVars

\* one turn of `for (const reviewType of REVIEW_TYPES)`: the agent's answer is
\* parsed, its findings are mapped and posted, and the entry is pushed; a failed
\* answer or an exception while posting is caught and pushes an entry with
\* parsed null. (answered, calls, posted: what happened, kept beside the entry)
RubricReview ==
  /\ pass.pc = "rubric"
  /\ \E agentOk \in BOOLEAN, rev, com \in scn.posts, answer \in scn.answers :
       LET type == REVIEW_TYPES[pass.rub]
           mapped == mapFindingsToPositions(answer, diffData)
           out == IF answer = <<>> THEN postPassedReview(type, rev)
                  ELSE postInlineReview(type, mapped, rev, com)
           thrown == out.calls[Len(out.calls)].res = "threw"
           entry == IF agentOk
                    THEN [type |-> type, parsed |-> ~thrown,
                          findings |-> IF thrown THEN <<>> ELSE mapped,
                          answered |-> TRUE, mapped |-> mapped,
                          calls |-> out.calls, posted |-> out.posted]
                    ELSE [type |-> type, parsed |-> FALSE, findings |-> <<>>,
                          answered |-> FALSE, mapped |-> <<>>,
                          calls |-> <<>>, posted |-> <<>>]
       IN /\ parsedFindings' = (IF agentOk THEN mapped ELSE parsedFindings)
          /\ postedReviews' = postedReviews \o entry.posted
          /\ pass' = [pass EXCEPT !.results = Append(@, entry),
                                  !.pc = IF pass.rub < NumRubrics THEN "rubric" ELSE "summary",
                                  !.rub = IF pass.rub < NumRubrics THEN @ + 1 ELSE 0]
  /\ UNCHANGED <<prDiff, rawDiff, diffData>>
  /\ UNCHANGED progVars

\* past the loop: postSummaryComment, then updateState writes the record; an
\* exception of the summary post ends reviewPR before the record is written
PassRecord ==
  /\ pass.pc = "summary"
  /\ \E com \in scn.posts :
       /\ pass' = [pass EXCEPT !.pc = IF com = "threw" THEN "threw" ELSE "recorded"]
       /\ postedReviews' = postedReviews \o postSummaryComment(com).posted
  /\ UNCHANGED <<prDiff, rawDiff, diffData, parsedFindings>>
  /\ UNCHANGED progVars

\* the Comment Cycle after the pass: the inline and the general comments of the
\* pull request are fetched and filtered with isUserComment
CommentFetch ==
  /\ pass.pc = "recorded"
  /\ pass' = [pass EXCEPT !.pc = "polled",
                          !.fetched = SelectSeq(PlatformComments(postedReviews), isUserComment)]
  /\ UNCHANGED <<prDiff, rawDiff, diffData, parsedFindings, postedReviews>>
  /\ UNCHANGED progVars

NextPass == ReviewEntry \/ RubricReview \/ PassRecord \/ CommentFetch

\* a pass over one diff of the platform, with the answers and the results of the
\* posts of a scenario, under one of the settings of GITHUB_USERNAME
InitPassAs(diffs, answers, posts, usernames) ==
  /\ \E username \in usernames :
       InitProgram([Scenario(0, 0, FALSE, 0, 0, {})
                      EXCEPT !.answers = answers, !.posts = posts, !.username = username])
  /\ prDiff \in diffs
  /\ rawDiff = <<>> /\ diffData = <<>> /\ parsedFindings = <<>> /\ postedReviews = <<>>
  /\ pass = [pc |-> "start", rub |-> 0, results |-> <<>>, fetched |-> <<>>]

\* GITHUB_USERNAME is not set (config.js: process.env.GITHUB_USERNAME || "")
InitPass(diffs, answers, posts) == InitPassAs(diffs, answers, posts, {""})

\* every diff, rubrics without findings
InitDiff == InitPass(DiffsOver(Sections), {<<>>}, {"gh"})

SpecDiff == InitDiff /\ [][NextPass]_vars

\* diffs whose files have few, far apart or no new-side lines, and rubrics that
\* answer with one finding at a line of a file in or out of the diff
InitResolve ==
  LET sections ==
        {Section("modified", <<"f">>, hs) :
           hs \in {<<Hunks.top>>, <<Hunks.line10, Hunks.line60>>, <<Hunks.removal>>}}
        \cup {Section("renamed", <<"f">>, <<>>), Section("modified", <<"g">>, <<Hunks.top>>)}
      files == FileNames \cup {<<"h">>}
      lines == {0, NoVal, 2, 35, 50, 60}
  IN InitPass(DiffsOver(sections),
              {<<Finding(file, line, "m1")>> : file \in files, line \in lines}, {"gh"})

SpecResolve == InitResolve /\ [][NextPass]_vars

\* one changed file, and rubrics that answer with up to MaxFindings findings,
\* two of them at lines that resolve to one position
InitAnnotate ==
  LET findings ==
        {Finding(<<"f">>, 4, "m1"), Finding(<<"f">>, 35, "m2"), Finding(<<"f">>, 2, "m3")}
  IN InitPass({<<Section("modified", <<"f">>, <<Hunks.top>>)>>},
              UNION {[1..n -> findings] : n \in 0..MaxFindings}, {"gh"})

SpecAnnotate == InitAnnotate /\ [][NextPass]_vars

\* one changed file, rubrics that answer with no finding, a finding in the diff,
\* one outside of it or both, and posts that may fail
InitPost ==
  LET inDiff == Finding(<<"f">>, 2, "m1")
      outside == Finding(<<"h">>, 2, "m2")
  IN InitPass({<<Section("modified", <<"f">>, <<Hunks.top>>)>>},
              {<<>>, <<inDiff>>, <<outside>>, <<outside, inDiff>>}, PostResults)

SpecPost == InitPost /\ [][NextPass]_vars

\* the severities an answer may carry: the four of the prompts, in their case or
\* not, and another word
Severities ==
  {<<"H", "I", "G", "H">>, <<"L", "O", "W">>, <<"h", "i", "g", "h">>, <<"I", "N", "F", "O">>}

\* a pass whose findings carry these severities, posted as the App or through
\* the gh CLI, with GITHUB_USERNAME unset or set to the user of the gh CLI
InitFilter ==
  LET inDiff(sev) == [Finding(<<"f">>, 2, "m1") EXCEPT !.severity = sev]
      outside == Finding(<<"h">>, 2, "m2")
  IN InitPassAs({<<Section("modified", <<"f">>, <<Hunks.top>>)>>},
                {<<>>, <<outside>>} \cup {<<inDiff(sev)>> : sev \in Severities}
                  \cup {<<inDiff(sev), inDiff(<<"H", "I", "G", "H">>)>> : sev \in Severities},
                {"app", "gh"}, {"", "dev"})

SpecFilter == InitFilter /\ [][NextPass]_vars


\* ------------------------------------------------------------------ claims
Live == {t \in 1..MaxLive : tasks[t].pc # "idle"}
NoDup(s) == Cardinality(Range(s)) = Len(s)
Ids(k) == StoreView[k].ids

\* C1: at any moment at most one poll cycle is in progress; a cycle that
\* overruns the poll interval delays the next one.
C1_OneCycleAtATime == Cardinality(Live) <= 1

\* C2: once a comment id was in processedCommentIds on disk, no handler is
\* invoked for that comment again, also after a restart and its retention sweep.
C2_NoReprocessing == ev.op = "handle" => ~ev.persisted

\* C3: for every pull request processedCommentIds only grows and never holds
\* an id twice: every step keeps the ids recorded before it.
C3_IdsOnlyGrow ==
  [][\A k \in Keys : Range(Ids(k)) \subseteq Range(Ids(k)') /\ NoDup(Ids(k)')]_vars

\* C4: the store holds a record for a pull request if and only if the record
\* write of updateState was reached for it.
C4_RecordIffReviewed == \A k \in Keys : StoreView[k].used <=> k \in completed

\* C5: every listed pull request that has no completed review pass is selected
\* by the Review Cycle, whatever the Comment Cycle did before.
C5_UnseenSelected == ev.op = "select" => ev.unseen \subseteq ev.selected

\* C6: the store loaded after a crash inside a write of the state file is the
\* complete store from before that write or the complete store after it.
C6_LoadBeforeOrAfter ==
  (ev.op = "load" /\ ev.kind = "torn") => ev.loaded \in {disk.before, disk.after}

\* C7: a pull request whose review pass was cut by a crash before the record
\* write is selected again by the Review Cycle that lists it after the restart.
C7_CutPassReviewedAgain == ev.op = "select" => ev.cut \subseteq ev.selected

C9_AbortedSelectedAgain == ev.op = "select" => ev.aborted \subseteq ev.selected

\* C10: the record written at the end of a pass has one entry per configured
\* rubric, in configured order, with status ERROR for each rubric that failed
\* and the agent's status for each that ran.
C10_OneEntryPerRubric ==
  ev.op = "record" =>
    LET reviews == StoreView[ev.key].reviews IN
    /\ Len(reviews) = NumRubrics
    /\ \A i \in 1..NumRubrics :
         /\ reviews[i].type = REVIEW_TYPES[i]
         /\ i \in ev.failed => reviews[i].status = "ERROR"
         /\ i \notin ev.failed => reviews[i].status \in {o.status : o \in AgentOutputs}

\* a record written after a rubric failed and a later rubric ran
C10_FailedThenRan ==
  /\ ev.op = "record"
  /\ \E i \in ev.failed : \E j \in (i + 1)..NumRubrics : j \notin ev.failed

\* C11: a listed pull request whose completed review recorded another commit
\* than its head commit is selected by the Review Cycle, label or no label.
C11_NewCommitSelected == ev.op = "select" => ev.changed \subseteq ev.selected
CommentTasks == {t \in 1..MaxLive : tasks[t].pc \in {"cmt", "handle", "csleep"}}
DiskIds(k) == IF disk.kind = "ok" THEN Range(disk.data[k].ids) ELSE {}
\* comments of the loop whose handler and state.set are over
Handled(T) == {T.cmts[i] : i \in 1..(IF T.pc = "csleep" THEN T.ci ELSE T.ci - 1)}

\* C13: within one Comment Cycle the comments of a pull request are handled in
\* ascending creation-time order, the id of each handled comment is on disk
\* before the next handler starts, and no handler is started for a comment
\* whose id was persisted: a crash replays at most the comment in hand.
C13_OrderedPersistedNoReplay ==
  /\ \A t \in CommentTasks :
       /\ \A i, j \in 1..Len(tasks[t].cmts) :
            i < j => CCreated(tasks[t].cmts[i]) < CCreated(tasks[t].cmts[j])
       /\ Handled(tasks[t]) \subseteq DiskIds(tasks[t].prs[tasks[t].pi].key)
  /\ ~(ev.op = "handle" /\ ev.persisted)

C15_ReviewedAtMonotonic ==
  [][\A k \in Keys : StoreView[k].reviewedAt <= StoreView[k]'.reviewedAt]_vars

\* the diff of the pass has been parsed
DiffParsed == pass.pc \in {"rubric", "summary", "recorded", "polled", "threw"}
\* the hunk lines of a file section, in order
SectionLines(s) == Flatten([i \in 1..Len(s.hunks) |-> s.hunks[i].lines])
ValidPositionsOf(name) ==
  IF name \in DOMAIN diffData THEN diffData[name].validPositions ELSE {}

\* C16: for every file of the diff, validPositions is exactly 1..n, n the number
\* of context, added and removed lines of the file's hunks, and no other file
\* has an entry; the one-file one-hunk scenario gives {1:1, 2:2, 3:3, 4:4}.
C16_ValidPositionsExact ==
  DiffParsed =>
    /\ \A i \in 1..Len(prDiff) :
         ValidPositionsOf(prDiff[i].name) = 1..Len(SectionLines(prDiff[i]))
    /\ DOMAIN diffData \subseteq {prDiff[i].name : i \in 1..Len(prDiff)}
    /\ \A n \in FileNames :
         prDiff = <<Section("modified", n, <<Hunks.top>>)>> =>
           diffData[n] = [lineToPosition |-> [l \in 1..4 |-> l], validPositions |-> 1..4]

\* the post-change line number of line li of hunk h (not a removed line)
NewLineOf(h, li) == h.newStart + CountTag(SubSeq(h.lines, 1, li - 1), {" ", "+"})
\* the count of hunk lines of section s up to line li of its hunk hi
PositionOf(s, hi, li) == Len(SectionLines([s EXCEPT !.hunks = SubSeq(@, 1, hi - 1)])) + li

\* C17: for every added or context line of a file's hunks, lineToPosition at
\* its post-change line number is the count of hunk lines (context, added and
\* removed) from the file's first hunk up to and including that line.
C17_LineToPositionCounts ==
  DiffParsed =>
    \A i \in 1..Len(prDiff) :
      \A hi \in 1..Len(prDiff[i].hunks) :
        \A li \in 1..Len(prDiff[i].hunks[hi].lines) :
          LET s == prDiff[i]
              h == s.hunks[hi]
          IN h.lines[li].tag # "-" =>
               /\ s.name \in DOMAIN diffData
               /\ NewLineOf(h, li) \in DOMAIN diffData[s.name].lineToPosition
               /\ diffData[s.name].lineToPosition[NewLineOf(h, li)] = PositionOf(s, hi, li)

\* the mapped finding of the rubric that answered last, with a file
Pinned == {parsedFindings[i] : i \in 1..Len(parsedFindings)}
LinesOf(file) == DOMAIN diffData[file].lineToPosition
\* the key at the smallest distance of a line, the lower one of two
NearestKey(keys, line) ==
  CHOOSE k \in keys :
    \A j \in keys : \/ Abs(line - k) < Abs(line - j)
                    \/ Abs(line - k) = Abs(line - j) /\ k <= j

\* C18: a finding with a non-zero line gets the position stored under the key of
\* the file's lineToPosition nearest to that line, the lower key when two are
\* equally near (so a key resolves to its own position); it gets no position
\* when lineToPosition is empty or the file is not in the map.
C18_NearestKeyLowerOnTie ==
  \A f \in Pinned :
    f.line \notin {0, NoVal} =>
      f.position = IF f.file \notin DOMAIN diffData \/ LinesOf(f.file) = {} THEN NoPosition
                   ELSE diffData[f.file].lineToPosition[NearestKey(LinesOf(f.file), f.line)]

\* a line between two keys at the same distance of both took the lower key's
\* position, and another finding's line nearer the higher key took that one's
C18_TieResolvedToLowerKey ==
  \E f \in Pinned :
    /\ f.file \in DOMAIN diffData
    /\ f.line \notin LinesOf(f.file)
    /\ \E k, j \in LinesOf(f.file) :
         /\ k < j /\ f.line - k = j - f.line
         /\ diffData[f.file].lineToPosition[k] # diffData[f.file].lineToPosition[j]
         /\ f.position = diffData[f.file].lineToPosition[k]

\* the entries of the rubrics that had their turn, with what each posted
Results == {pass.results[i] : i \in 1..Len(pass.results)}
FileLevel(f) == f.file # NoFile /\ f.line \in {0, NoVal}
HasComment(o, f) ==
  \E i \in 1..Len(o.comments) :
    o.comments[i].path = f.file /\ o.comments[i].position = f.position

\* C19: a file-level finding (line 0 or no line) gets the smallest element of
\* the file's validPositions, and no position when validPositions is empty or
\* the file is not in the diff; the rubric then goes on and posts (the fallback
\* comment when there is no position), it is not aborted.
C19_FileLevelSmallestPosition ==
  \A r \in Results : \A f \in Range(r.mapped) :
    FileLevel(f) =>
      /\ IF f.file \in DOMAIN diffData /\ diffData[f.file].validPositions # {}
         THEN /\ f.position \in diffData[f.file].validPositions
              /\ \A q \in diffData[f.file].validPositions : f.position <= q
         ELSE f.position = NoPosition
      /\ r.parsed /\ r.findings = r.mapped
      /\ Len(r.posted) = 1
      /\ IF f.position = NoPosition /\ Len(r.mapped) = 1
         THEN r.posted[1].kind = "fallback"
         ELSE r.posted[1].kind = "review" /\ HasComment(r.posted[1], f)

\* a file-level finding of a file with several positions was posted inline at
\* the smallest one
C19_FileLevelPinnedAtTop ==
  \E r \in Results : \E f \in Range(r.mapped) :
    /\ FileLevel(f)
    /\ f.file \in DOMAIN diffData
    /\ Cardinality(diffData[f.file].validPositions) > 1
    /\ f.position = 1
    /\ Len(r.posted) = 1 /\ r.posted[1].kind = "review"
    /\ r.posted[1].comments[1].position = 1

\* the inline annotations of a pass: <<review, comment>> index pairs
Annotations ==
  UNION {{<<r, c>> : c \in 1..Len(postedReviews[r].comments)} : r \in 1..Len(postedReviews)}
CommentAt(a) == postedReviews[a[1]].comments[a[2]]
SameLocation(x, y) == x.path = y.path /\ x.position = y.position

\* C20 (as stated): in one pass, findings of different rubrics that resolve to
\* one (file, position) are posted as one inline annotation holding both
\* messages; a location never gets two annotations in one pass.
C20_OneAnnotationPerLocationInPass ==
  \A a, b \in Annotations : SameLocation(CommentAt(a), CommentAt(b)) => a = b

\* C20 (amended): in each posted review (one rubric's) no two annotations share
\* a (file, position), and the annotation at a location holds the messages of
\* all that rubric's findings resolved to it, in the agent's order.
C20_OneAnnotationPerLocationInReview ==
  /\ \A a, b \in Annotations :
       a[1] = b[1] /\ SameLocation(CommentAt(a), CommentAt(b)) => a = b
  /\ \A r \in Results : \A o \in Range(r.posted) :
       o.kind = "review" =>
         /\ \A f \in Range(r.mapped) : f.position # NoPosition => HasComment(o, f)
         /\ \A i \in 1..Len(o.comments) :
              LET c == o.comments[i]
                  Here(f) == f.file = c.path /\ f.position = c.position
                  sel == SelectSeq(r.mapped, Here)
              IN c.body = [k \in 1..Len(sel) |-> sel[k].message]

\* a rubric's review joined two findings of different lines in one annotation,
\* and an earlier rubric's review of the pass has an annotation at that location
C20_JoinedInReviewTwiceInPass ==
  \E i, j \in 1..Len(pass.results) :
    /\ i < j
    /\ \E o \in Range(pass.results[j].posted), e \in Range(pass.results[i].posted) :
         \E f, g \in Range(pass.results[j].mapped) :
           /\ f.line # g.line /\ f.position = g.position /\ f.position # NoPosition
           /\ HasComment(o, f) /\ HasComment(e, f)
           /\ \E n \in 1..Len(o.comments) :
                o.comments[n].position = f.position /\ Len(o.comments[n].body) = 2

\* the output a rubric's answer calls for, and the calls that lead to it
Resolved(r) == \E f \in Range(r.mapped) : f.file # NoFile /\ f.position # NoPosition
LastCall(r) == r.calls[Len(r.calls)]
InlineRejected(r) == r.calls # <<>> /\ r.calls[1] = [api |-> "review", res |-> "none"] /\ Resolved(r)
ExpectedKind(r) ==
  IF r.mapped = <<>> THEN "passed"
  ELSE IF Resolved(r) /\ ~InlineRejected(r) THEN "review" ELSE "fallback"

\* C21 (as stated): every rubric whose output parsed emits exactly one output: a
\* passed review without comments for no findings, an inline review when a
\* finding has a position and the inline post succeeds, one fallback comment
\* when no finding has a position or the inline post fails.
C21_ExactlyOneOutput ==
  \A r \in Results :
    r.answered => Len(r.posted) = 1 /\ r.posted[1].kind = ExpectedKind(r)

\* C21 (amended): a parsed rubric makes the review call (no findings, or a
\* finding with a position) or the comment call (no position), and the comment
\* call after a review with findings that came back false; the output of the
\* last call is the rubric's one output when the platform accepts it, and the
\* rubric has no output when that call fails; a rubric that did not parse posts
\* nothing.
C21_OneOutputIfLastPostAccepted ==
  \A r \in Results :
    IF ~r.answered THEN r.calls = <<>> /\ r.posted = <<>>
    ELSE /\ r.calls[1].api = (IF r.mapped = <<>> \/ Resolved(r) THEN "review" ELSE "comment")
         /\ Len(r.calls) = (IF InlineRejected(r) THEN 2 ELSE 1)
         /\ LastCall(r).api = (IF ExpectedKind(r) = "fallback" THEN "comment" ELSE "review")
         /\ IF Accepted(LastCall(r).res)
            THEN /\ Len(r.posted) = 1
                 /\ r.posted[1].kind = ExpectedKind(r)
                 /\ r.posted[1].kind = "passed" => r.posted[1].comments = <<>>
            ELSE r.posted = <<>>

\* one pass emitted the three outputs: a passed review, an inline review, and a
\* fallback comment after an inline review that was rejected
C21_ThreeOutputsInOnePass ==
  /\ \E r \in Results : r.mapped = <<>> /\ Len(r.posted) = 1 /\ r.posted[1].kind = "passed"
  /\ \E r \in Results : Len(r.posted) = 1 /\ r.posted[1].kind = "review"
  /\ \E r \in Results : InlineRejected(r) /\ Len(r.posted) = 1 /\ r.posted[1].kind = "fallback"

C25_FailedWriteKeptThenPersisted ==
  ev.op = "record" /\ ev.w # "torn" =>
    /\ get(mem, ev.key) # 0
    /\ StoreView[ev.key].reviews = ReviewsOf(ev.results)
    /\ \E t \in 1..MaxLive : tasks[t].pc = "notify" /\ tasks[t].prs[tasks[t].pi].key = ev.key
    /\ ev.w = "ok" => disk = OkDisk(StoreView)
    /\ ev.w = "fail" => disk = ev.file

\* a write succeeded while the record of another pull request, whose own write
\* had failed, was in memory only: the file now holds both
C25_EarlierRecordPersisted ==
  /\ ev.op = "record" /\ ev.w = "ok"
  /\ \E j \in ev.unsaved : j # ev.key /\ StoreView[j].used /\ disk.data[j] = StoreView[j]

\* C26: the command of a comment is an exact match of its trimmed, lower-cased
\* body with a command token: "!review", "!fix-lint" and "!fix" give their
\* commands, every other body is free-form (no command).
C26_ExactTokenMatch ==
  ev.op = "handle" =>
    LET text == LowerCase(Trim(CBody(ev.c))) IN
    ev.command = (IF text = <<"!", "r", "e", "v", "i", "e", "w">> THEN "review"
                  ELSE IF text = <<"!", "f", "i", "x", "-", "l", "i", "n", "t">> THEN "fix-lint"
                  ELSE IF text = <<"!", "f", "i", "x">> THEN "fix"
                  ELSE "null")

\* C27: the Comment Cycle never takes a comment the system posted (an inline
\* finding, a fallback comment, the summary) for a human comment, whichever
\* identity posted it and whatever the severity of the finding.
C27_OwnOutputNeverFetched ==
  pass.pc = "polled" => pass.fetched = <<>>

\* C28: an invocation of the agent that hits the timeout or ends with a
\* process error is a failure for its caller (an error entry of the rubric, a
\* failed handler), whatever it had printed; an invocation that exits with
\* code 0 and no output is a success of run.
C28_TimeoutIsFailure ==
  ev.op \in {"rubric", "processed"} =>
    /\ ev.run.end \in {"timeout", "error"} => ev.failed
    /\ ev.run.end = "exit0" /\ Trim(ev.run.stdout) = <<>> => ev.resolved

C30_PassOnlyWithLabel ==
  ev.op = "entry" => ev.hadLabel

\* C31: a "!review" comment on an open pull request of a watched repository
\* leads to the label and to a review pass: the Comment Cycle passes no
\* repository while such a comment on one of its open pull requests is
\* unhandled, the handler of the comment adds the label, and a Review Cycle
\* selects every listed pull request that carries the label.
C31_ReviewCommandLeadsToPass ==
  /\ ev.op = "skip" => \A c \in ev.waiting : parseCommand(CBody(c)) # "review"
  /\ ev.op = "handle" /\ ev.command = "review" /\ ~ev.threw => label[ev.key]
  /\ ev.op = "select" => ev.labelled \subseteq ev.selected

\* C32: the Comment Cycle handles comments only of pull requests that have a
\* record in the store: when a handler starts, the store holds a record of the
\* pull request, and ids are recorded as processed only for pull requests whose
\* review pass completed.
C32_HandledOnlyWithRecord ==
  /\ ev.op = "handle" => ev.recorded
  /\ \A k \in Keys : Ids(k) # <<>> => k \in completed

\* the fields of a record that the review pass writes
ReviewFields(r) == <<r.reviewedAt, r.lastPRUpdate, r.commitSha, r.reviews>>

\* C33: each write leaves the other component's fields of the record
\* unchanged, under any interleaving of cycles: a step of the Comment Cycle
\* that handled a comment keeps the review fields of every record, and the
\* record write of a review pass keeps processedCommentIds.
C33_WritesKeepOtherFields ==
  [][/\ ev'.op \in {"handle", "processed"} =>
          \A k \in Keys : ReviewFields(StoreView[k]') = ReviewFields(StoreView[k])
     /\ ev'.op = "record" =>
          /\ StoreView'[ev'.key].ids = StoreView[ev'.key].ids
          /\ StoreView'[ev'.key].hasIds = StoreView[ev'.key].hasIds]_vars

\* C34: every hunk line is attributed to the file whose "+++ b/<path>" header
\* precedes it in its own section: the map of a file holds positions and lines
\* of the hunk lines of that file's section only (nothing of the header lines
\* or of the hunks of a section that follows), and a deleted file has no map.
C34_LinesAttributedToOwnFile ==
  DiffParsed =>
    \A i \in 1..Len(prDiff) :
      LET s == prDiff[i] IN
      IF s.kind = "deleted" \/ s.hunks = <<>> THEN s.name \notin DOMAIN diffData
      ELSE /\ s.name \in DOMAIN diffData
           /\ diffData[s.name].validPositions \subseteq 1..Len(SectionLines(s))
           /\ \A l \in LinesOf(s.name) :
                \E hi \in 1..Len(s.hunks) : \E li \in 1..Len(s.hunks[hi].lines) :
                  /\ s.hunks[hi].lines[li].tag # "-"
                  /\ l = NewLineOf(s.hunks[hi], li)

\* C35: in the inline review of one rubric there is exactly one comment for
\* every (file, position) that a finding of the rubric resolved to, it holds
\* the messages of the findings resolved there in the agent's order, findings
\* at different pairs are in different comments, and every comment has a file
\* and a position.
C35_OneCommentPerFilePosition ==
  \A r \in Results : \A o \in Range(r.posted) :
    o.kind = "review" =>
      LET Located(f) == f.file # NoFile /\ f.position # NoPosition
          located == SelectSeq(r.mapped, Located)
          pairs == {<<f.file, f.position>> : f \in Range(located)}
      IN /\ Len(o.comments) = Cardinality(pairs)
         /\ \A i \in 1..Len(o.comments) :
              o.comments[i].path # NoFile /\ o.comments[i].position # NoPosition
         /\ \A p \in pairs :
              LET Here(f) == f.file = p[1] /\ f.position = p[2]
                  sel == SelectSeq(located, Here)
                  at == {i \in 1..Len(o.comments) :
                           o.comments[i].path = p[1] /\ o.comments[i].position = p[2]}
              IN /\ Cardinality(at) = 1
                 /\ \A i \in at : o.comments[i].body = [n \in 1..Len(sel) |-> sel[n].message]

\* one rubric's review joined two findings of different lines in one comment, in
\* the agent's order, and another rubric's review of the pass holds two comments
\* for two findings at different positions
C35_JoinedAndSeparateReviews ==
  /\ \E r \in Results : \E o \in Range(r.posted) :
       /\ o.kind = "review" /\ Len(r.mapped) = 2 /\ Len(o.comments) = 1
       /\ r.mapped[1].line # r.mapped[2].line
       /\ o.comments[1].body = <<r.mapped[1].message, r.mapped[2].message>>
       /\ r.mapped[1].message # r.mapped[2].message
  /\ \E r \in Results : \E o \in Range(r.posted) :
       /\ o.kind = "review" /\ Len(r.mapped) = 2 /\ Len(o.comments) = 2
       /\ o.comments[1].position # o.comments[2].position

\* C36: when posting the summary comment throws, the step writes no record
\* and removes no label, and the next Review Cycle that lists the pull request
\* selects it again; a record is written only with the results of all rubrics,
\* after the summary was posted.
C36_SummaryFailureReviewedAgain ==
  [][/\ ev'.op = "threw" =>
          /\ StoreView' = StoreView /\ disk' = disk /\ label' = label
          /\ ev'.key \in thrownPass'
     /\ ev'.op = "select" => ev'.thrown \subseteq ev'.selected
     /\ ev'.op = "record" => Len(ev'.results) = NumRubrics]_vars

C38_EveryFindingPosted ==
  \A r \in Results :
    r.answered /\ r.posted # <<>> =>
      \A f \in Range(r.mapped) :
        \E o \in Range(r.posted) :
          \/ o.kind = "fallback" /\ f \in Range(o.listed)
          \/ /\ o.kind = "review"
             /\ \E i \in 1..Len(o.comments) :
                  /\ o.comments[i].path = f.file /\ o.comments[i].position = f.position
                  /\ f.message \in Range(o.comments[i].body)

\* C39: a position that a finding was resolved to is an element of
\* validPositions of the finding's file in the map parsed from the diff, every
\* position stored in a lineToPosition map is one of the file's validPositions,
\* and so is the position of every inline comment posted for its path.
C39_PositionIsValid ==
  DiffParsed =>
    /\ \A r \in Results : \A f \in Range(r.mapped) :
         f.position # NoPosition =>
           f.file \in DOMAIN diffData /\ f.position \in diffData[f.file].validPositions
    /\ \A n \in DOMAIN diffData : \A l \in DOMAIN diffData[n].lineToPosition :
         diffData[n].lineToPosition[l] \in diffData[n].validPositions
    /\ \A a \in Annotations : CommentAt(a).position \in ValidPositionsOf(CommentAt(a).path)

\* a finding at a line that is not in the diff was resolved to a position of a
\* file with lines far apart and posted as an inline comment at that position
C39_FarLinePostedAtValidPosition ==
  \E r \in Results : \E f \in Range(r.mapped) :
    /\ f.file \in DOMAIN diffData /\ ~FileLevel(f)
    /\ f.line \notin LinesOf(f.file)
    /\ LinesOf(f.file) = {10, 60}
    /\ f.position = 2
    /\ \E o \in Range(r.posted) : o.kind = "review" /\ HasComment(o, f)

====
